---- MODULE Spec2Model ----
(***************************************************************************)
(* PT prior-authorization backend (src/backend/app): the intake pipeline   *)
(* run_intake_pipeline with its audit trail and record store, as a state   *)
(* machine.  One action is one stretch of a coroutine between two awaits   *)
(* (an await of a store operation includes that operation, which the store *)
(* applies atomically per document).                                       *)
(***************************************************************************)
EXTENDS Integers, Sequences, FiniteSets, TLC

(***************************************************************************)
(* Bounds of the model.                                                    *)
(***************************************************************************)
MaxRuns == 2        \* pipeline invocations in one behaviour of Spec
MaxSeqRuns == 1     \* pipeline invocations in one behaviour of SpecSeq
MaxIntakes == 2     \* intake records upload_intake creates
MaxFaults == 1      \* store writes the store rejects in one behaviour
MaxDay == 0         \* a call's first clock read gives a date in 0..MaxDay

(***************************************************************************)
(* JSON values as Python sees them.  A value is a record whose only field  *)
(* names its type; a dict's content is a function from its keys, so an     *)
(* absent key is a key outside the DOMAIN.                                 *)
(***************************************************************************)
Null == [null |-> TRUE]
StrV(s) == [str |-> s]
IntV(n) == [int |-> n]
ListV(l) == [list |-> l]
DictV(d) == [dict |-> d]
EmptyDict == <<>>

IsNull(v) == "null" \in DOMAIN v
IsStr(v) == "str" \in DOMAIN v
IsInt(v) == "int" \in DOMAIN v
IsList(v) == "list" \in DOMAIN v
IsDict(v) == "dict" \in DOMAIN v

\* Python truthiness: None, "", 0, [] and {} are falsy.
Truthy(v) ==
    CASE IsNull(v) -> FALSE
      [] IsStr(v) -> v.str # ""
      [] IsInt(v) -> v.int # 0
      [] IsList(v) -> v.list # <<>>
      [] IsDict(v) -> DOMAIN v.dict # {}

\* d.get(k, dflt) and d[k] = v on a dict's content.
DictGet(d, k, dflt) == IF k \in DOMAIN d THEN d[k] ELSE dflt
DictPut(d, k, v) == [x \in DOMAIN d \cup {k} |-> IF x = k THEN v ELSE d[x]]
\* {**d, **s}, and the effect of a $set of s on a document d.
DictMerge(d, s) ==
    [x \in DOMAIN d \cup DOMAIN s |-> IF x \in DOMAIN s THEN s[x] ELSE d[x]]

\* The outcome of a call that may raise.
Ok(v) == [ok |-> TRUE, val |-> v]
Raised == [ok |-> FALSE]

(***************************************************************************)
(* ocr_service                                                             *)
(***************************************************************************)
DefaultCptCodes == ListV(<<"97161", "97110">>)
DefaultIcd10Code == StrV("M25.561")
DefaultVisitsRequested == 8

_empty_payload ==
    DictV([patient |-> DictV([firstName |-> StrV(""), lastName |-> StrV(""),
                              dob |-> StrV("")]),
           insurance |-> DictV([payerName |-> StrV(""), planName |-> StrV(""),
                                groupNumber |-> Null, memberId |-> StrV(""),
                                subscriberName |-> StrV("")]),
           clinical |-> DictV([icd10Code |-> StrV(""), cptCodes |-> ListV(<<>>),
                               visitsRequested |-> IntV(0)]),
           provider |-> DictV([referringProviderName |-> StrV(""),
                               referringProviderNpi |-> StrV(""),
                               siteOfCare |-> StrV("")])])

\* FillDefault filling only a key that is absent.
FillDefault_absent_only(c, k, dflt) ==
    IF k \in DOMAIN c THEN c ELSE DictPut(c, k, dflt)

\* One "if not clinical.get(k): clinical[k] = dflt".
FillDefault(c, k, dflt) ==
    IF Truthy(DictGet(c, k, Null)) THEN c ELSE DictPut(c, k, dflt)

\* apply_defaults: payload.setdefault("clinical", {}) returns the value already
\* stored under the key when the key is present, whatever it is; .get on a
\* value that is no dict raises AttributeError.
apply_defaults(payload) ==
    IF ~IsDict(payload) THEN Raised
    ELSE LET p == payload.dict
             clinical == DictGet(p, "clinical", DictV(EmptyDict))
         IN  IF ~IsDict(clinical) THEN Raised
             ELSE LET c1 == FillDefault(clinical.dict, "cptCodes", DefaultCptCodes)
                      c2 == FillDefault(c1, "icd10Code", DefaultIcd10Code)
                      c3 == FillDefault(c2, "visitsRequested",
                                        IntV(DefaultVisitsRequested))
                  IN  Ok(DictV(DictPut(p, "clinical", DictV(c3))))

(***************************************************************************)
(* erp_service._flatten_extracted                                          *)
(***************************************************************************)
\* extracted.get(group, {}): the group's content, or Raised when the stored
\* value is no dict (the .get calls on it raise AttributeError).
GroupOf(extracted, g) ==
    LET v == DictGet(extracted.dict, g, DictV(EmptyDict))
    IN  IF IsDict(v) THEN Ok(v.dict) ELSE Raised

_flatten_extracted(extracted) ==
    LET patient == GroupOf(extracted, "patient")
        insurance == GroupOf(extracted, "insurance")
        clinical == GroupOf(extracted, "clinical")
        provider == GroupOf(extracted, "provider")
    IN  IF ~(patient.ok /\ insurance.ok /\ clinical.ok /\ provider.ok) THEN Raised
        ELSE Ok([patientFirst |-> DictGet(patient.val, "firstName", StrV("")),
                 patientLast |-> DictGet(patient.val, "lastName", StrV("")),
                 dob |-> DictGet(patient.val, "dob", StrV("")),
                 payerName |-> DictGet(insurance.val, "payerName", StrV("")),
                 planName |-> DictGet(insurance.val, "planName", StrV("")),
                 groupNumber |-> DictGet(insurance.val, "groupNumber", Null),
                 memberId |-> DictGet(insurance.val, "memberId", StrV("")),
                 subscriberName |-> DictGet(insurance.val, "subscriberName", StrV("")),
                 referringProviderName |->
                     DictGet(provider.val, "referringProviderName", StrV("")),
                 referringProviderNpi |->
                     DictGet(provider.val, "referringProviderNpi", StrV("")),
                 siteOfCare |-> DictGet(provider.val, "siteOfCare", StrV("")),
                 cptCodes |-> DictGet(clinical.val, "cptCodes", ListV(<<>>)),
                 icd10Code |-> DictGet(clinical.val, "icd10Code", StrV("")),
                 visitsRequested |-> DictGet(clinical.val, "visitsRequested", IntV(0))])

(***************************************************************************)
(* ivr_service: the rule engine                                            *)
(***************************************************************************)
PtVisitLimit == 12
PtVisitsUsed == 2
AuthThreshold == 6
MaxVisitsApproved == 6
ValidityDays == 60

Min2(a, b) == IF a <= b THEN a ELSE b
Max2(a, b) == IF a >= b THEN a ELSE b

\* uuid.uuid4().hex: 32 lower-case hexadecimal characters.
HexLower == <<"0", "1", "2", "3", "4", "5", "6", "7", "8", "9",
              "a", "b", "c", "d", "e", "f">>
HexUpper == <<"0", "1", "2", "3", "4", "5", "6", "7", "8", "9",
              "A", "B", "C", "D", "E", "F">>
UuidHexLen == 32
AuthNumberHexLen == 8
\* str.upper() on one hexadecimal character.
UpperChar(c) == HexUpper[CHOOSE i \in 1..16 : HexLower[i] = c]
\* The uuid4 values the model draws from; the draw is random in the code, so
\* two calls may draw the same value.
UuidHexes ==
    { [i \in 1..UuidHexLen |-> HexLower[((i * k) % 16) + 1]] : k \in {3, 11} }

\* The number without upper().
AuthNumberOf_lower(hex) ==
    [prefix |-> "PT-",
     hex |-> [i \in 1..AuthNumberHexLen |-> hex[i]]]

\* f"PT-{uuid.uuid4().hex[:8].upper()}"
AuthNumberOf(hex) ==
    [prefix |-> "PT-",
     hex |-> [i \in 1..AuthNumberHexLen |-> UpperChar(hex[i])]]

\* calculate_auth with the threshold included in "required".
calculate_auth_at_threshold(visits_requested, uuidHex, date1, date2) ==
    LET auth_required == visits_requested >= AuthThreshold
    IN  [authRequired |-> auth_required,
         visitsApproved |->
            IF auth_required
            THEN Max2(0, Min2(MaxVisitsApproved,
                              Min2(PtVisitLimit - PtVisitsUsed, visits_requested)))
            ELSE 0,
         authNumber |-> IF auth_required THEN AuthNumberOf(uuidHex) ELSE Null,
         validFrom |-> date1,
         validTo |-> date2 + ValidityDays]

\* calculate_auth(visits_requested), with what it draws from its environment:
\* the uuid and the dates of its two clock reads (dates are day numbers).
calculate_auth(visits_requested, uuidHex, date1, date2) ==
    LET limit == PtVisitLimit
        used == PtVisitsUsed
        auth_required == visits_requested > AuthThreshold
        visits_approved ==
            IF auth_required
            THEN Max2(0, Min2(MaxVisitsApproved, Min2(limit - used, visits_requested)))
            ELSE 0
    IN  [authRequired |-> auth_required,
         visitsApproved |-> visits_approved,
         authNumber |-> IF auth_required THEN AuthNumberOf(uuidHex) ELSE Null,
         validFrom |-> date1,
         validTo |-> date2 + ValidityDays]

_benefits_summary ==
    [coverageStart |-> "2025-01-01",
     coverageEnd |-> "2025-12-31",
     copayOrCoins |-> "20% coinsurance",
     ptVisitLimit |-> PtVisitLimit,
     ptVisitsUsed |-> PtVisitsUsed]

\* int(x) for the values the pipeline hands it: an int is itself, a string of
\* decimal digits its number, anything else raises.
DecimalStrings == [s \in {"4", "8"} |-> IF s = "4" THEN 4 ELSE 8]
PyInt(v) ==
    CASE IsInt(v) -> Ok(v.int)
      [] IsStr(v) -> IF v.str \in DOMAIN DecimalStrings
                     THEN Ok(DecimalStrings[v.str]) ELSE Raised
      [] OTHER -> Raised

\* int(extracted.get("clinical", {}).get("visitsRequested", 0) or 0)
VisitsRequestedOf(extracted) ==
    LET clinical == GroupOf(extracted, "clinical")
    IN  IF ~clinical.ok THEN Raised
        ELSE LET v == DictGet(clinical.val, "visitsRequested", IntV(0))
             IN  PyInt(IF Truthy(v) THEN v ELSE IntV(0))

(***************************************************************************)
(* State                                                                   *)
(***************************************************************************)
VARIABLES
    pt_intakes,             \* collection pt_intakes: _id -> document
    eligibility_results,    \* collection: documents in insertion order
    authorization_records,  \* collection: documents in insertion order
    call_transcripts,       \* collection: documents in insertion order
    audit_events,           \* collection: documents in insertion order
    pc,                     \* per pipeline invocation: where its coroutine is
    intake_id,              \* per invocation: its argument (once scheduled)
    raw,                    \* per invocation: what the extraction call returned
    extracted,              \* per invocation: local "extracted"
    benefits,               \* per invocation: local "benefits"
    auth,                   \* per invocation: local "auth"
    raisedBy,               \* per invocation: what raised out of the coroutine
    writes,                 \* per invocation: record-store writes it completed
    blocker,                \* the invocations (none or one) inside a synchronous
                            \* call on the event loop's thread
    faults,                 \* store writes rejected so far
    sessions,               \* IVRService.sessions of the IVR routes: id -> session
    reply,                  \* what the last IVR request returned
    authCalls,              \* the calculate_auth calls made on the service
                            \* directly: what each drew and what it returned
    clock,                  \* datetime.utcnow() as the store keeps it: a count
                            \* of milliseconds
    response                \* what the last request to the intake and audit
                            \* routes returned

vars == <<pt_intakes, eligibility_results, authorization_records,
          call_transcripts, audit_events, pc, intake_id, raw, extracted,
          benefits, auth, raisedBy, writes, blocker, faults,
          sessions, reply, authCalls, clock, response>>

collections == <<pt_intakes, eligibility_results, authorization_records,
                 call_transcripts>>
locals == <<intake_id, raw, extracted, benefits, auth>>
\* The pipeline's variables, which a call on the IVR service leaves alone.
pipeline == <<collections, audit_events, pc, locals, raisedBy, writes, blocker,
              faults>>
\* The IVR service of the IVR routes, which the pipeline never touches.
service == <<sessions, reply, authCalls>>

Runs == 1..MaxRuns
\* Intake ids upload_intake hands out (uuid4 strings in the code), and an id
\* it never hands out.
IntakeIds == 1..MaxIntakes
UnknownId == 0
\* A local variable not assigned yet.
Unset == [unset |-> TRUE]
Days == 0..MaxDay
DaysNext == 0..(MaxDay + 1)

\* What the extraction call returns: json.loads of the model's reply, or the
\* empty payload.
ValidPayload ==
    DictV([patient |-> DictV([firstName |-> StrV("Ana"), lastName |-> StrV("Diaz"),
                              dob |-> StrV("1990-01-01")]),
           insurance |-> DictV([payerName |-> StrV("Acme"), planName |-> StrV("PPO"),
                                groupNumber |-> StrV("G1"), memberId |-> StrV("123"),
                                subscriberName |-> StrV("Ana Diaz")]),
           clinical |-> DictV([icd10Code |-> StrV("M54.5"),
                               cptCodes |-> ListV(<<"97110">>),
                               visitsRequested |-> IntV(4)]),
           provider |-> DictV([referringProviderName |-> StrV("Dr Roe"),
                               referringProviderNpi |-> StrV("1234567890"),
                               siteOfCare |-> StrV("clinic")])])
Payloads ==
    { _empty_payload,
      ValidPayload,
      \* "If unknown, use null": a group that is null
      DictV(DictPut(ValidPayload.dict, "clinical", Null)),
      \* a reply without the clinical group, and with a null provider group
      DictV([patient |-> ValidPayload.dict.patient, provider |-> Null]),
      \* clinical fields null or absent
      DictV(DictPut(ValidPayload.dict, "clinical",
                    DictV([icd10Code |-> Null, cptCodes |-> ListV(<<"97110">>)]))) }

Init ==
    /\ pt_intakes = <<>>
    /\ eligibility_results = <<>>
    /\ authorization_records = <<>>
    /\ call_transcripts = <<>>
    /\ audit_events = <<>>
    /\ pc = [r \in Runs |-> "unused"]
    /\ intake_id = [r \in Runs |-> UnknownId]
    /\ raw = [r \in Runs |-> Unset]
    /\ extracted = [r \in Runs |-> Unset]
    /\ benefits = [r \in Runs |-> Unset]
    /\ auth = [r \in Runs |-> Unset]
    /\ raisedBy = [r \in Runs |-> "none"]
    /\ writes = [r \in Runs |-> 0]
    /\ blocker = {}
    /\ faults = 0
    /\ sessions = <<>>
    /\ reply = Unset
    /\ authCalls = <<>>
    /\ clock = 0
    /\ response = Unset

(***************************************************************************)
(* The event loop and the store                                            *)
(***************************************************************************)
\* Coroutines and request handlers run on one event loop thread: none of them
\* runs while a synchronous call holds that thread.
LoopFree == blocker = {}

\* A store write is applied or rejected.
WriteOutcomes == {TRUE} \cup (IF faults < MaxFaults THEN {FALSE} ELSE {})
CountFault(ok) == faults' = IF ok THEN faults ELSE faults + 1

Goto(r, label) == pc' = [pc EXCEPT ![r] = label]
\* An exception leaves run_intake_pipeline: the background task ends.
Raise(r, what) ==
    /\ pc' = [pc EXCEPT ![r] = "raised"]
    /\ raisedBy' = [raisedBy EXCEPT ![r] = what]

\* update_one_upsert as an insert_one.
update_one_upsert_insert(coll, id, fields) ==
    Append(coll, DictMerge([intakeId |-> id], fields))

\* update_one(filter on intakeId, {"$set": fields}, upsert=True): the first
\* matching document is updated, and one is inserted when none matches.
Matches(coll, id) == {i \in 1..Len(coll) : coll[i].intakeId = id}
update_one_upsert(coll, id, fields) ==
    LET set == DictMerge([intakeId |-> id], fields)
    IN  IF Matches(coll, id) = {} THEN Append(coll, set)
        ELSE LET i == CHOOSE j \in Matches(coll, id) :
                          \A k \in Matches(coll, id) : j <= k
             IN  [coll EXCEPT ![i] = DictMerge(coll[i], set)]

\* update_one({"_id": id}, {"$set": fields}) without upsert.
update_one_intake(coll, id, fields) ==
    IF id \in DOMAIN coll THEN [coll EXCEPT ![id] = DictMerge(coll[id], fields)]
    ELSE coll

\* The document emit_audit inserts; "by" is not stored: it names the
\* invocation that emitted the event.
AuditDoc(r, id, action, after) ==
    [entityType |-> "pt_intake", entityId |-> id, action |-> action,
     actorRole |-> "system", timestamp |-> clock, beforeJson |-> Null,
     afterJson |-> after, runId |-> Null, by |-> r]

\* emit_audit with the failure of the insert swallowed: the pipeline goes on.
emit_audit_swallow(r, action, after, ok, next) ==
    /\ CountFault(ok)
    /\ Goto(r, next)
    /\ IF ok
       THEN /\ audit_events' =
                   Append(audit_events, AuditDoc(r, intake_id[r], action, after))
            /\ UNCHANGED raisedBy
       ELSE /\ raisedBy' = [raisedBy EXCEPT ![r] = "audit"]
            /\ UNCHANGED audit_events

\* emit_audit putting the new event in front of the collection.
emit_audit_prepend(r, action, after, ok, next) ==
    /\ CountFault(ok)
    /\ IF ok
       THEN /\ audit_events' =
                  <<AuditDoc(r, intake_id[r], action, after)>> \o audit_events
            /\ Goto(r, next)
            /\ UNCHANGED raisedBy
       ELSE /\ Raise(r, "audit")
            /\ UNCHANGED audit_events

\* emit_audit keeping only the latest event of the entity.
emit_audit_latest_only(r, action, after, ok, next) ==
    /\ CountFault(ok)
    /\ IF ok
       THEN /\ LET Others(ev) == ev.entityId # intake_id[r]
               IN  audit_events' =
                       Append(SelectSeq(audit_events, Others),
                              AuditDoc(r, intake_id[r], action, after))
            /\ Goto(r, next)
            /\ UNCHANGED raisedBy
       ELSE /\ Raise(r, "audit")
            /\ UNCHANGED audit_events

\* await emit_audit(...) in run_intake_pipeline, then on to label next: the
\* insert is applied, or it raises and the exception leaves the pipeline.
emit_audit(r, action, after, ok, next) ==
    /\ CountFault(ok)
    /\ IF ok
       THEN /\ audit_events' =
                   Append(audit_events, AuditDoc(r, intake_id[r], action, after))
            /\ Goto(r, next)
            /\ UNCHANGED raisedBy
       ELSE /\ Raise(r, "audit")
            /\ UNCHANGED audit_events

(***************************************************************************)
(* routes/intake                                                           *)
(***************************************************************************)
\* POST /intake: a new document under a fresh id, status "created".
upload_intake ==
    /\ LoopFree
    /\ Cardinality(DOMAIN pt_intakes) < MaxIntakes
    /\ LET id == Cardinality(DOMAIN pt_intakes) + 1
       IN  /\ pt_intakes' = DictPut(pt_intakes, id,
                                     [sourceFilePath |-> id, status |-> "created"])
           /\ response' = [intakeId |-> id]
    /\ UNCHANGED <<service, clock>>
    /\ UNCHANGED <<eligibility_results, authorization_records, call_transcripts,
                   audit_events, pc, locals, raisedBy, writes, blocker, faults>>

\* Scheduling that marks the intake as running.
Schedule_running(id) ==
    /\ \E r \in Runs :
          /\ pc[r] = "unused"
          /\ \A q \in Runs : q < r => pc[q] # "unused"
          /\ pc' = [pc EXCEPT ![r] = "scheduled"]
          /\ intake_id' = [intake_id EXCEPT ![r] = id]
    /\ pt_intakes' = update_one_intake(pt_intakes, id, [status |-> "running"])
    /\ UNCHANGED <<service, clock>>
    /\ UNCHANGED <<eligibility_results, authorization_records, call_transcripts,
                   audit_events, raw, extracted, benefits, auth,
                   raisedBy, writes, blocker, faults>>

\* background_tasks.add_task(run_intake_pipeline, id): the next invocation.
Schedule(id) ==
    /\ \E r \in Runs :
          /\ pc[r] = "unused"
          /\ \A q \in Runs : q < r => pc[q] # "unused"
          /\ pc' = [pc EXCEPT ![r] = "scheduled"]
          /\ intake_id' = [intake_id EXCEPT ![r] = id]
    /\ UNCHANGED <<service, clock>>
    /\ UNCHANGED <<collections, audit_events, raw, extracted, benefits, auth,
                   raisedBy, writes, blocker, faults>>

\* raise HTTPException(status_code=404, detail="intake not found")
HttpNotFound == [status_code |-> 404, detail |-> "intake not found"]

\* run_intake without the lookup of lines 42-44.
run_intake_unchecked(id) ==
    /\ LoopFree
    /\ Schedule(id)
    /\ response' = [runId |-> id]

\* POST /intake/{id}/run: 404 for an id without a record, else the pipeline
\* is added as a background task and the acknowledgement returned.
run_intake(id) ==
    /\ LoopFree
    /\ IF id \in DOMAIN pt_intakes
       THEN /\ Schedule(id)
            /\ response' = [runId |-> id]
       ELSE /\ response' = HttpNotFound
            /\ UNCHANGED <<pipeline, service, clock>>

\* run_intake_pipeline called for an id that has no record (no route does
\* it: the guard in the pipeline is defensive).
call_pipeline_unknown ==
    /\ LoopFree
    /\ Schedule(UnknownId)
    /\ UNCHANGED response

(***************************************************************************)
(* services/portia_plan.run_intake_pipeline, invocation r                  *)
(***************************************************************************)
\* line 19: emit runStarted.
StepRunStarted(r) ==
    /\ LoopFree
    /\ pc[r] = "scheduled"
    /\ \E ok \in WriteOutcomes : emit_audit(r, "runStarted", Null, ok, "load")
    /\ UNCHANGED <<service, clock, response>>
    /\ UNCHANGED <<collections, locals, writes, blocker>>

\* StepLoad without the guard "if not intake: return".
StepLoad_no_guard(r) ==
    /\ LoopFree
    /\ pc[r] = "load"
    /\ Goto(r, "extracting") /\ blocker' = {r}
    /\ UNCHANGED <<service, clock, response>>
    /\ UNCHANGED <<collections, audit_events, locals, raisedBy, writes, faults>>

\* lines 21-28: load the intake, return when there is none; else the
\* extraction call starts.  It is a synchronous HTTP call inside an async
\* function, so it holds the event loop's thread until it returns.
StepLoad(r) ==
    /\ LoopFree
    /\ pc[r] = "load"
    /\ IF intake_id[r] \in DOMAIN pt_intakes
       THEN Goto(r, "extracting") /\ blocker' = {r}
       ELSE Goto(r, "returned") /\ UNCHANGED blocker
    /\ UNCHANGED <<service, clock, response>>
    /\ UNCHANGED <<collections, audit_events, locals, raisedBy, writes, faults>>

\* lines 28-29: the extraction call returns payload; apply_defaults.
StepExtracted(r, payload) ==
    /\ pc[r] = "extracting"
    /\ blocker = {r}
    /\ blocker' = {}
    /\ raw' = [raw EXCEPT ![r] = payload]
    /\ LET filled == apply_defaults(payload)
       IN  IF filled.ok
           THEN /\ extracted' = [extracted EXCEPT ![r] = filled.val]
                /\ Goto(r, "emitOcr")
                /\ UNCHANGED raisedBy
           ELSE /\ Raise(r, "apply_defaults")
                /\ UNCHANGED extracted
    /\ UNCHANGED <<service, clock, response>>
    /\ UNCHANGED <<collections, audit_events, intake_id, benefits, auth, writes,
                   faults>>

\* line 30: emit ocrExtracted; line 33: asyncio.sleep(6) starts.
StepEmitOcr(r) ==
    /\ LoopFree
    /\ pc[r] = "emitOcr"
    /\ \E ok \in WriteOutcomes :
          emit_audit(r, "ocrExtracted", extracted[r], ok, "sleeping")
    /\ UNCHANGED <<service, clock, response>>
    /\ UNCHANGED <<collections, locals, writes, blocker>>

\* lines 33-38: the sleep ends; visits_requested, benefits and auth are
\* computed.  calculate_auth draws a uuid (hex) and reads the clock twice:
\* the reads give the dates date1 and date2, and the date may change
\* between them.
StepRules(r, hex, date1, date2) ==
    /\ LoopFree
    /\ pc[r] = "sleeping"
    /\ date2 \in {date1, date1 + 1}
    /\ LET visits == VisitsRequestedOf(extracted[r])
       IN  IF visits.ok
           THEN /\ benefits' = [benefits EXCEPT ![r] = _benefits_summary]
                /\ auth' = [auth EXCEPT ![r] =
                               calculate_auth(visits.val, hex, date1, date2)]
                /\ Goto(r, "emitElig")
                /\ UNCHANGED raisedBy
           ELSE /\ Raise(r, "int")
                /\ UNCHANGED <<benefits, auth>>
    /\ UNCHANGED <<service, clock, response>>
    /\ UNCHANGED <<collections, audit_events, intake_id, raw, extracted, writes,
                   blocker, faults>>

\* The step of line 39 without its emission.
StepEmitElig_silent(r) ==
    /\ LoopFree
    /\ pc[r] = "emitElig"
    /\ Goto(r, "emitAuth")
    /\ UNCHANGED <<service, clock, response>>
    /\ UNCHANGED <<collections, audit_events, locals, raisedBy, writes, blocker,
                   faults>>

\* line 39: emit eligibilityChecked.
StepEmitElig(r) ==
    /\ LoopFree
    /\ pc[r] = "emitElig"
    /\ \E ok \in WriteOutcomes :
          emit_audit(r, "eligibilityChecked", benefits[r], ok, "emitAuth")
    /\ UNCHANGED <<service, clock, response>>
    /\ UNCHANGED <<collections, locals, writes, blocker>>

\* The action when the branch at line 40 is always taken.
AuthAction_obtained(a) == "authObtained"

\* lines 40-43: emit authObtained or authWaived.
AuthAction(a) == IF a.authRequired THEN "authObtained" ELSE "authWaived"
StepEmitAuth(r) ==
    /\ LoopFree
    /\ pc[r] = "emitAuth"
    /\ \E ok \in WriteOutcomes :
          emit_audit(r, AuthAction(auth[r]), auth[r], ok, "persistElig")
    /\ UNCHANGED <<service, clock, response>>
    /\ UNCHANGED <<collections, locals, writes, blocker>>

(***************************************************************************)
(* services/erp_service.persist_results, called at lines 46-53             *)
(***************************************************************************)
Transcript == [stepsJson |-> <<>>, dtmfJson |-> <<>>, outcomeSummary |-> "simulated"]

\* One awaited write of persist_results: applied, or rejected with an
\* exception that leaves persist_results and the pipeline.
PersistOutcome(r, ok, next) ==
    /\ CountFault(ok)
    /\ IF ok
       THEN /\ Goto(r, next)
            /\ writes' = [writes EXCEPT ![r] = @ + 1]
            /\ UNCHANGED raisedBy
       ELSE /\ Raise(r, "persist")
            /\ UNCHANGED writes

\* persist_results writing the intake's status first, in the place of the
\* eligibility record.
StepPersistElig_status_first(r) ==
    /\ LoopFree
    /\ pc[r] = "persistElig"
    /\ \E ok \in WriteOutcomes :
          /\ PersistOutcome(r, ok, "persistAuth")
          /\ pt_intakes' =
                IF ok THEN update_one_intake(pt_intakes, intake_id[r],
                                             [status |-> "saved"])
                ELSE pt_intakes
    /\ UNCHANGED <<service, clock, response>>
    /\ UNCHANGED <<eligibility_results, authorization_records, call_transcripts,
                   audit_events, locals, blocker>>

\* erp_service lines 19-28
StepPersistElig(r) ==
    /\ LoopFree
    /\ pc[r] = "persistElig"
    /\ \E ok \in WriteOutcomes :
          /\ PersistOutcome(r, ok, "persistAuth")
          /\ eligibility_results' =
                IF ok THEN update_one_upsert(eligibility_results, intake_id[r],
                                             benefits[r])
                ELSE eligibility_results
    /\ UNCHANGED <<service, clock, response>>
    /\ UNCHANGED <<pt_intakes, authorization_records, call_transcripts,
                   audit_events, locals, blocker>>

\* erp_service lines 30-39
StepPersistAuth(r) ==
    /\ LoopFree
    /\ pc[r] = "persistAuth"
    /\ \E ok \in WriteOutcomes :
          /\ PersistOutcome(r, ok, "persistTranscript")
          /\ authorization_records' =
                IF ok THEN update_one_upsert(authorization_records, intake_id[r],
                                             auth[r])
                ELSE authorization_records
    /\ UNCHANGED <<service, clock, response>>
    /\ UNCHANGED <<pt_intakes, eligibility_results, call_transcripts,
                   audit_events, locals, blocker>>

\* StepPersistTranscript with persist_results returning after it, the
\* update of the intake document left out.
StepPersistTranscript_returns(r) ==
    /\ LoopFree
    /\ pc[r] = "persistTranscript"
    /\ \E ok \in WriteOutcomes :
          /\ PersistOutcome(r, ok, "emitSaved")
          /\ call_transcripts' =
                IF ok THEN update_one_upsert(call_transcripts, intake_id[r],
                                             Transcript)
                ELSE call_transcripts
    /\ UNCHANGED <<service, clock, response>>
    /\ UNCHANGED <<pt_intakes, eligibility_results, authorization_records,
                   audit_events, locals, blocker>>

\* erp_service lines 41-50
StepPersistTranscript(r) ==
    /\ LoopFree
    /\ pc[r] = "persistTranscript"
    /\ \E ok \in WriteOutcomes :
          /\ PersistOutcome(r, ok, "persistIntake")
          /\ call_transcripts' =
                IF ok THEN update_one_upsert(call_transcripts, intake_id[r],
                                             Transcript)
                ELSE call_transcripts
    /\ UNCHANGED <<service, clock, response>>
    /\ UNCHANGED <<pt_intakes, eligibility_results, authorization_records,
                   audit_events, locals, blocker>>

\* IntakePatch writing a status outside the lifecycle.
IntakePatch_done(flat) == DictMerge([status |-> "done"], flat)

\* erp_service lines 52-55: the $set document: status and the flattened
\* fields (updatedAt, a wall-clock timestamp, is left out of the model).
IntakePatch(flat) == DictMerge([status |-> "saved"], flat)

\* erp_service lines 52-55: _flatten_extracted is evaluated (it may raise),
\* then the intake document is updated.
StepPersistIntake(r) ==
    /\ LoopFree
    /\ pc[r] = "persistIntake"
    /\ LET flat == _flatten_extracted(extracted[r])
       IN  IF flat.ok
           THEN \E ok \in WriteOutcomes :
                   /\ PersistOutcome(r, ok, "emitSaved")
                   /\ pt_intakes' =
                         IF ok THEN update_one_intake(pt_intakes, intake_id[r],
                                                      IntakePatch(flat.val))
                         ELSE pt_intakes
           ELSE /\ Raise(r, "_flatten_extracted")
                /\ UNCHANGED <<pt_intakes, writes, faults>>
    /\ UNCHANGED <<service, clock, response>>
    /\ UNCHANGED <<eligibility_results, authorization_records, call_transcripts,
                   audit_events, locals, blocker>>

\* portia_plan line 54: emit saved; the pipeline returns.
StepEmitSaved(r) ==
    /\ LoopFree
    /\ pc[r] = "emitSaved"
    /\ \E ok \in WriteOutcomes : emit_audit(r, "saved", Null, ok, "done")
    /\ UNCHANGED <<service, clock, response>>
    /\ UNCHANGED <<collections, locals, writes, blocker>>

\* The steps of invocation r other than those that take an input.
PipelineStep(r) ==
    \/ StepRunStarted(r)
    \/ StepLoad(r)
    \/ StepEmitOcr(r)
    \/ StepEmitElig(r)
    \/ StepEmitAuth(r)
    \/ StepPersistElig(r)
    \/ StepPersistAuth(r)
    \/ StepPersistTranscript(r)
    \/ StepPersistIntake(r)
    \/ StepEmitSaved(r)

\* Spec: invocations run concurrently; the extraction replies, the uuid and
\* the clock are kept to CorePayloads, one uuid and date 0.
CorePayloads ==
    { _empty_payload, ValidPayload,
      DictV(DictPut(ValidPayload.dict, "clinical", Null)) }
CoreUuid == CHOOSE h \in UuidHexes : TRUE

Next ==
    \/ upload_intake
    \/ \E id \in IntakeIds \cup {UnknownId} : run_intake(id)
    \/ call_pipeline_unknown
    \/ \E r \in Runs : PipelineStep(r)
    \/ \E r \in Runs, payload \in CorePayloads : StepExtracted(r, payload)
    \/ \E r \in Runs : StepRules(r, CoreUuid, 0, 0)

Spec == Init /\ [][Next]_vars

\* SpecSeq: at most MaxSeqRuns invocations, one at a time (a run is triggered
\* when no other is in flight), with every extraction reply, uuid and clock
\* behaviour of the model.
InFlight(r) == pc[r] \notin {"unused", "returned", "raised", "done"}
MayTrigger ==
    /\ \A r \in Runs : ~InFlight(r)
    /\ Cardinality({r \in Runs : pc[r] # "unused"}) < MaxSeqRuns

NextSeq ==
    \/ upload_intake
    \/ \E id \in IntakeIds \cup {UnknownId} : MayTrigger /\ run_intake(id)
    \/ MayTrigger /\ call_pipeline_unknown
    \/ \E r \in Runs : PipelineStep(r)
    \/ \E r \in Runs, payload \in Payloads : StepExtracted(r, payload)
    \/ \E r \in Runs, hex \in UuidHexes, date1 \in Days, date2 \in DaysNext :
          StepRules(r, hex, date1, date2)

SpecSeq == Init /\ [][NextSeq]_vars

(***************************************************************************)
(* routes/audit.py, GET /intake/{id} and the clock                         *)
(***************************************************************************)
MaxTick == 1

\* Time passes: the next datetime.utcnow() the store keeps is a later one.
Tick ==
    /\ clock < MaxTick
    /\ clock' = clock + 1
    /\ UNCHANGED <<pipeline, service, response>>

\* cursor.sort("timestamp", 1): the documents in an ascending order of their
\* timestamps.  The store does not say in which order it returns documents
\* of equal timestamps: every such order is a result.
SortByTimestamp(docs) ==
    LET n == Len(docs)
        Ascending(p) ==
            \A i, j \in 1..n :
                i < j => docs[p[i]].timestamp <= docs[p[j]].timestamp
    IN  { [i \in 1..n |-> docs[p[i]]] :
              p \in {q \in Permutations(1..n) : Ascending(q)} }

\* find_one({"intakeId": id}): the first matching document, or None.
find_one(coll, id) ==
    IF Matches(coll, id) = {} THEN Null
    ELSE coll[CHOOSE j \in Matches(coll, id) :
                  \A k \in Matches(coll, id) : j <= k]

\* The entity types a client asks the audit route about.
EntityTypes == {"pt_intake", "ivr_session"}

\* get_audit answering 404 for an entity without events.
get_audit_strict(entity, entity_id) ==
    /\ LoopFree
    /\ LET Selects(ev) == ev.entityType = entity /\ ev.entityId = entity_id
       IN  IF SelectSeq(audit_events, Selects) = <<>>
           THEN response' = HttpNotFound
           ELSE \E events \in SortByTimestamp(SelectSeq(audit_events, Selects)) :
                    response' = [events |-> events]
    /\ UNCHANGED <<pipeline, service, clock>>

\* GET /audit/{entity}/{entity_id} (routes/audit.py lines 8-16)
get_audit(entity, entity_id) ==
    /\ LoopFree
    /\ LET Selects(ev) == ev.entityType = entity /\ ev.entityId = entity_id
       IN  \E events \in SortByTimestamp(SelectSeq(audit_events, Selects)) :
               response' = [events |-> events]
    /\ UNCHANGED <<pipeline, service, clock>>

\* GET /intake/{intake_id} (routes/intake.py lines 51-74)
get_intake(id) ==
    /\ LoopFree
    /\ IF id \notin DOMAIN pt_intakes
       THEN response' = HttpNotFound
       ELSE LET Selects(ev) == ev.entityId = id
            IN  \E audit \in SortByTimestamp(SelectSeq(audit_events, Selects)) :
                    response' =
                        [intake |-> pt_intakes[id],
                         eligibility |-> find_one(eligibility_results, id),
                         authorization |-> find_one(authorization_records, id),
                         transcript |-> find_one(call_transcripts, id),
                         audit |-> audit]
    /\ UNCHANGED <<pipeline, service, clock>>

\* SpecAudit: one pipeline invocation with the extraction reply ValidPayload,
\* the clock, and clients that read.
NoneTriggered == \A r \in Runs : pc[r] = "unused"

NextAudit ==
    \/ upload_intake
    \/ \E id \in IntakeIds \cup {UnknownId} : NoneTriggered /\ run_intake(id)
    \/ \E r \in Runs : PipelineStep(r)
    \/ \E r \in Runs : StepExtracted(r, ValidPayload)
    \/ \E r \in Runs : StepRules(r, CoreUuid, 0, 0)
    \/ Tick
    \/ \E entity \in EntityTypes, id \in IntakeIds \cup {UnknownId} :
          get_audit(entity, id)
    \/ \E id \in IntakeIds \cup {UnknownId} : get_intake(id)

SpecAudit == Init /\ [][NextAudit]_vars

(***************************************************************************)
(* The rule engine called directly                                         *)
(***************************************************************************)
MaxCalls == 2

\* visits_requested values handed to calculate_auth: negative, zero, at the
\* threshold, just above it, and above limit - used.
VisitsInputs == {-1, 0, AuthThreshold, AuthThreshold + 1,
                 PtVisitLimit - PtVisitsUsed + 1}

\* uuid4 values a call may draw: those of UuidHexes and one more that differs
\* from CoreUuid in its last character only.
UuidDraws ==
    UuidHexes \cup {[CoreUuid EXCEPT ![UuidHexLen] = HexLower[Len(HexLower)]]}

\* One call of calculate_auth (lines 110-124).  It draws a uuid4 when
\* auth_required holds (line 120), never one drawn before, and reads the
\* clock at lines 115 and 116: the second read is not earlier than the first
\* and at most a day later.
call_calculate_auth(visits_requested, uuidHex, date1, date2) ==
    /\ Len(authCalls) < MaxCalls
    /\ date2 \in {date1, date1 + 1}
    /\ \A i \in DOMAIN authCalls : uuidHex \notin authCalls[i].drew
    /\ LET ret == calculate_auth(visits_requested, uuidHex, date1, date2)
       IN  authCalls' = Append(authCalls,
               [visits_requested |-> visits_requested,
                drew |-> IF ret.authRequired THEN {uuidHex} ELSE {},
                date1 |-> date1,
                date2 |-> date2,
                ret |-> ret])
    /\ UNCHANGED <<pipeline, sessions, reply, clock, response>>

NextRules ==
    \E v \in VisitsInputs, hex \in UuidDraws, date1 \in Days, date2 \in DaysNext :
        call_calculate_auth(v, hex, date1, date2)

SpecRules == Init /\ [][NextRules]_vars

(***************************************************************************)
(* services/ivr_service.py: the IVR session state machine                  *)
(***************************************************************************)
MaxDtmf == 5

\* Session ids (str(uuid4()) in the code); an id start has not handed out yet
\* is an id the service does not know.
SessionIds == {"s1", "s2"}
\* The digits a caller sends: any one-character string; "5" stands for the
\* characters no rule names.
Digits == {"0", "1", "2", "5", "9", "#"}

MenuPrompt ==
    "Press 1 for Eligibility and benefits, 2 for Prior authorization (PT), 0 to end"
NotFound == [error |-> "session not found"]

\* lines 27-36
NewSession ==
    [state |-> "mainMenu", prompt |-> MenuPrompt, dtmf |-> <<>>,
     transcript |-> <<>>, memberId |-> Null, dob |-> Null, benefits |-> Null,
     authResult |-> Null]

\* (s.get(key) or "") for a buffer that is None or a string
OrEmpty(v) == IF Truthy(v) THEN v.str ELSE ""

InvalidPrompt == "Invalid. Press 1 for Eligibility, 2 for Prior auth, 0 to end"

\* The main menu without its prior-authorization branch.
MainMenuRule_no_auth(s, digit) ==
    CASE digit = "1" ->
            [s EXCEPT !.state = "collectMemberIdElig",
                      !.prompt = "Enter member ID followed by #"]
      [] digit = "0" -> [s EXCEPT !.state = "ended", !.prompt = "Goodbye"]
      [] OTHER -> [s EXCEPT !.prompt = InvalidPrompt]

\* lines 46-57: the rule of state mainMenu.
MainMenuRule(s, digit) ==
    CASE digit = "1" ->
            [s EXCEPT !.state = "collectMemberIdElig",
                      !.prompt = "Enter member ID followed by #"]
      [] digit = "2" ->
            [s EXCEPT !.state = "collectMemberIdAuth",
                      !.prompt = "Enter member ID followed by #"]
      [] digit = "0" -> [s EXCEPT !.state = "ended", !.prompt = "Goodbye"]
      [] OTHER -> [s EXCEPT !.prompt = InvalidPrompt]

\* The member-id rule going on to the authorization branch from both states.
MemberIdRule_to_auth(s, digit) ==
    IF digit = "#"
    THEN [s EXCEPT !.prompt = "Enter DOB as YYYYMMDD followed by #",
                   !.state = "collectDobAuth"]
    ELSE [s EXCEPT !.memberId = StrV(OrEmpty(s.memberId) \o digit),
                   !.prompt = "Continue entering member ID, then #"]

\* lines 59-65: the rule of collectMemberIdElig and collectMemberIdAuth.
MemberIdRule(s, digit) ==
    IF digit = "#"
    THEN [s EXCEPT !.prompt = "Enter DOB as YYYYMMDD followed by #",
                   !.state = IF s.state = "collectMemberIdElig"
                             THEN "collectDobElig" ELSE "collectDobAuth"]
    ELSE [s EXCEPT !.memberId = StrV(OrEmpty(s.memberId) \o digit),
                   !.prompt = "Continue entering member ID, then #"]

\* The rule of the DOB states with the authorization computed at "#".
DobRule_computes_auth(s, digit) ==
    IF digit = "#"
    THEN [s EXCEPT
            !.dob = StrV(OrEmpty(s.dob)),
            !.benefits = _benefits_summary,
            !.authResult = calculate_auth(DefaultVisitsRequested, CoreUuid, 0, 0),
            !.state = IF s.state = "collectDobElig"
                      THEN "benefitsSummary" ELSE "checkAuthRequirement",
            !.prompt = "Benefits provided. Press 9 to repeat, 0 to end"]
    ELSE [s EXCEPT !.dob = StrV(OrEmpty(s.dob) \o digit),
                   !.prompt = "Continue entering DOB, then #"]

\* lines 67-81: the rule of collectDobElig and collectDobAuth.
DobRule(s, digit) ==
    IF digit = "#"
    THEN [s EXCEPT
            !.dob = StrV(OrEmpty(s.dob)),
            !.benefits = _benefits_summary,
            !.state = IF s.state = "collectDobElig"
                      THEN "benefitsSummary" ELSE "checkAuthRequirement",
            !.prompt = IF s.state = "collectDobElig"
                       THEN "Benefits provided. Press 9 to repeat, 0 to end"
                       ELSE "Checking if prior auth is required... Press 9 to repeat, 0 to end"]
    ELSE [s EXCEPT !.dob = StrV(OrEmpty(s.dob) \o digit),
                   !.prompt = "Continue entering DOB, then #"]

\* The rule of checkAuthRequirement still collecting DOB digits.
CheckAuthRule_collects(s, digit) ==
    [s EXCEPT !.dob = StrV(OrEmpty(s.dob) \o digit),
              !.prompt = "Auth requirement evaluated. Press 9 to repeat, 0 to end"]

\* lines 83-85: the rule of checkAuthRequirement.
CheckAuthRule(s, digit) ==
    [s EXCEPT !.prompt = "Auth requirement evaluated. Press 9 to repeat, 0 to end"]

\* The rule of benefitsSummary with digit 9 returning to the main menu.
BenefitsSummaryRule_to_menu(s, digit) ==
    CASE digit = "9" -> [s EXCEPT !.state = "mainMenu", !.prompt = MenuPrompt]
      [] digit = "0" -> [s EXCEPT !.state = "ended", !.prompt = "Goodbye"]
      [] OTHER -> s

\* lines 87-92: the rule of benefitsSummary.
BenefitsSummaryRule(s, digit) ==
    CASE digit = "9" ->
            [s EXCEPT !.prompt = "Benefits repeated. Press 9 to repeat, 0 to end"]
      [] digit = "0" -> [s EXCEPT !.state = "ended", !.prompt = "Goodbye"]
      [] OTHER -> s

\* lines 46-92: the rule of the session's state.
StateRule(s, digit) ==
    CASE s.state = "mainMenu" -> MainMenuRule(s, digit)
      [] s.state \in {"collectMemberIdElig", "collectMemberIdAuth"} ->
            MemberIdRule(s, digit)
      [] s.state \in {"collectDobElig", "collectDobAuth"} -> DobRule(s, digit)
      [] s.state = "checkAuthRequirement" -> CheckAuthRule(s, digit)
      [] s.state = "benefitsSummary" -> BenefitsSummaryRule(s, digit)
      [] OTHER -> s

\* The rule for digit 0 left out.
UniversalRule_none(s, digit) == s

\* lines 94-96: digit 0 ends the session, whatever the state's rule did.
UniversalRule(s, digit) ==
    IF digit = "0" THEN [s EXCEPT !.state = "ended", !.prompt = "Goodbye"]
    ELSE s

\* dtmf that records no digit once the session has ended.
Transition_skip_ended(s, digit) ==
    IF s.state = "ended"
    THEN s
    ELSE UniversalRule(
             StateRule([s EXCEPT !.dtmf = Append(s.dtmf, digit)], digit), digit)

\* dtmf where digit 1 reopens the main menu of an ended session.
Transition_restart(s, digit) ==
    IF s.state = "ended" /\ digit = "1"
    THEN [NewSession EXCEPT !.dtmf = Append(s.dtmf, digit)]
    ELSE UniversalRule(
             StateRule([s EXCEPT !.dtmf = Append(s.dtmf, digit)], digit), digit)

\* lines 43-96: what one dtmf call does to the session.
Transition(s, digit) ==
    UniversalRule(
        StateRule([s EXCEPT !.dtmf = Append(s.dtmf, digit)], digit), digit)

\* start that also records an audit event for the new session.
start_audited(session_id) ==
    /\ session_id \notin DOMAIN sessions
    /\ sessions' = (session_id :> NewSession) @@ sessions
    /\ reply' = [sessionId |-> session_id, state |-> "mainMenu",
                 prompt |-> NewSession.prompt]
    /\ audit_events' = Append(audit_events,
                              [AuditDoc(0, session_id, "sessionStarted", Null)
                                  EXCEPT !.entityType = "ivr_session"])
    /\ UNCHANGED <<collections, pc, locals, raisedBy, writes, blocker, faults,
                   authCalls, clock, response>>

\* IVRService.start (lines 25-37), with the id uuid4 gives it.
start(session_id) ==
    /\ session_id \notin DOMAIN sessions
    /\ sessions' = (session_id :> NewSession) @@ sessions
    /\ reply' = [sessionId |-> session_id, state |-> "mainMenu",
                 prompt |-> NewSession.prompt]
    /\ UNCHANGED <<pipeline, authCalls, clock, response>>

\* dtmf opening a session for an id it does not know.
dtmf_creates(session_id, digit) ==
    /\ LET known == IF session_id \in DOMAIN sessions
                    THEN sessions[session_id] ELSE NewSession
           s == Transition(known, digit)
       IN  /\ sessions' = (session_id :> s) @@ sessions
           /\ reply' = [sessionId |-> session_id, state |-> s.state,
                        prompt |-> s.prompt]
    /\ UNCHANGED <<pipeline, authCalls, clock, response>>

\* IVRService.dtmf (lines 39-98)
dtmf(session_id, digit) ==
    /\ IF session_id \in DOMAIN sessions
       THEN LET s == Transition(sessions[session_id], digit)
            IN  /\ sessions' = [sessions EXCEPT ![session_id] = s]
                /\ reply' = [sessionId |-> session_id, state |-> s.state,
                             prompt |-> s.prompt]
       ELSE /\ reply' = NotFound
            /\ UNCHANGED sessions
    /\ UNCHANGED <<pipeline, authCalls, clock, response>>

\* result handing the benefits out once: the session forgets them.
result_consumes(session_id) ==
    /\ reply' = IF session_id \in DOMAIN sessions
                THEN [sessionId |-> session_id,
                      benefits |-> sessions[session_id].benefits,
                      authResult |-> sessions[session_id].authResult]
                ELSE NotFound
    /\ sessions' = [sid \in DOMAIN sessions |->
                       IF sid = session_id
                       THEN [sessions[sid] EXCEPT !.benefits = Null]
                       ELSE sessions[sid]]
    /\ UNCHANGED <<pipeline, authCalls, clock, response>>

\* IVRService.result (lines 100-108)
result(session_id) ==
    /\ reply' = IF session_id \in DOMAIN sessions
                THEN [sessionId |-> session_id,
                      benefits |-> sessions[session_id].benefits,
                      authResult |-> sessions[session_id].authResult]
                ELSE NotFound
    /\ UNCHANGED <<sessions, pipeline, authCalls, clock, response>>

\* The digits the service has accepted so far, over all sessions.
RECURSIVE DtmfCount(_)
DtmfCount(S) ==
    IF S = {} THEN 0
    ELSE LET sid == CHOOSE x \in S : TRUE
         IN  Len(sessions[sid].dtmf) + DtmfCount(S \ {sid})

\* SpecIvr: callers send any digits to any session, MaxDtmf digits in all.
NextIvr ==
    \/ \E sid \in SessionIds : start(sid)
    \/ \E sid \in SessionIds, digit \in Digits :
          DtmfCount(DOMAIN sessions) < MaxDtmf /\ dtmf(sid, digit)
    \/ \E sid \in SessionIds : result(sid)

SpecIvr == Init /\ [][NextIvr]_vars

\* SpecIvrScript: each caller keys in one of the scripts, digit by digit.
PriorAuthScript ==
    <<"2", "1", "2", "3", "#", "1", "9", "9", "0", "0", "1", "0", "1", "#">>
ZeroFreeScript ==
    <<"2", "1", "2", "3", "#", "1", "9", "9", "9", "1", "1", "1", "1", "#">>
Scripts == {PriorAuthScript, ZeroFreeScript}

\* The digit that continues script after the digits sent so far.
Continues(script, sent) ==
    /\ Len(sent) < Len(script)
    /\ sent = SubSeq(script, 1, Len(sent))

NextIvrScript ==
    \/ \E sid \in SessionIds : start(sid)
    \/ \E sid \in DOMAIN sessions, script \in Scripts :
          /\ Continues(script, sessions[sid].dtmf)
          /\ dtmf(sid, script[Len(sessions[sid].dtmf) + 1])
    \/ \E sid \in SessionIds : result(sid)

SpecIvrScript == Init /\ [][NextIvrScript]_vars

\* SpecBoth: the intake routes and one pipeline invocation (extraction reply
\* ValidPayload) in the same process as one caller of the IVR routes.
BothSession == CHOOSE sid \in SessionIds : TRUE
BothDigits == {"1", "#", "0"}

NextBoth ==
    \/ upload_intake
    \/ \E id \in IntakeIds \cup {UnknownId} : NoneTriggered /\ run_intake(id)
    \/ \E r \in Runs : PipelineStep(r)
    \/ \E r \in Runs : StepExtracted(r, ValidPayload)
    \/ \E r \in Runs : StepRules(r, CoreUuid, 0, 0)
    \/ start(BothSession)
    \/ \E digit \in BothDigits :
          DtmfCount(DOMAIN sessions) < MaxDtmf /\ dtmf(BothSession, digit)
    \/ result(BothSession)

SpecBoth == Init /\ [][NextBoth]_vars

(***************************************************************************)
(* What the claims speak of                                                *)
(***************************************************************************)
\* The audit events invocation r appended, in the order of the collection,
\* and their actions.
EventsOf(r) ==
    LET ByR(e) == e.by = r
    IN  SelectSeq(audit_events, ByR)
ActionsOf(r) == [i \in 1..Len(EventsOf(r)) |-> EventsOf(r)[i].action]
Has(r, action) == \E i \in 1..Len(EventsOf(r)) : EventsOf(r)[i].action = action
HasAuthEvent(r) == Has(r, "authObtained") \/ Has(r, "authWaived")

\* The complete audit sequences of one run.
CompleteSequences ==
    { <<"runStarted", "ocrExtracted", "eligibilityChecked", a, "saved">> :
        a \in {"authObtained", "authWaived"} }

Started(r) == pc[r] # "unused"
Ended(r) == pc[r] \in {"returned", "raised", "done"}
HasRecord(r) == intake_id[r] \in DOMAIN pt_intakes
\* A store write of invocation r was rejected.
StoreFailed(r) == raisedBy[r] \in {"audit", "persist"}
\* The awaited writes of persist_results.
PersistWrites == 4
Statuses == {"created", "running", "saved", "failed"}


(***************************************************************************)
(* C1.  A run on an existing intake in which no store write fails appends, *)
(* in order, runStarted, ocrExtracted, eligibilityChecked, one of          *)
(* authObtained/authWaived, saved, and nothing else.                       *)
(* Stated for runs that have ended; the code violates it when the          *)
(* extraction reply makes apply_defaults raise (see C8).                   *)
(***************************************************************************)
C1_RunAuditSequence ==
    \A r \in Runs :
        (Ended(r) /\ HasRecord(r) /\ ~StoreFailed(r))
            => ActionsOf(r) \in CompleteSequences

\* What does hold: every run that returns normally on an existing intake has
\* a complete sequence.
C1_CompletedRunSequence ==
    \A r \in Runs : pc[r] = "done" => ActionsOf(r) \in CompleteSequences

(***************************************************************************)
(* C2.  Two runs of the same intake, one after the other, leave two        *)
(* complete audit sequences and one eligibility, one authorization and one *)
(* transcript document keyed by the intake id, holding what the second run *)
(* wrote.                                                                  *)
(***************************************************************************)
\* r2 started after r1 had returned: all of r1's events precede r2's.
OneAfterTheOther(r1, r2) ==
    /\ r1 # r2
    /\ pc[r1] = "done" /\ pc[r2] = "done"
    /\ intake_id[r1] = intake_id[r2]
    /\ \A i, j \in 1..Len(audit_events) :
          (audit_events[i].by = r1 /\ audit_events[j].by = r2) => i < j

C2_SecondRunOverwrites ==
    \A r1, r2 \in Runs :
        OneAfterTheOther(r1, r2) =>
            LET id == intake_id[r2]
            IN  /\ ActionsOf(r1) \in CompleteSequences
                /\ ActionsOf(r2) \in CompleteSequences
                /\ Cardinality(Matches(eligibility_results, id)) <= 1
                /\ Cardinality(Matches(authorization_records, id)) <= 1
                /\ Cardinality(Matches(call_transcripts, id)) <= 1
                /\ \A i \in Matches(eligibility_results, id) :
                      eligibility_results[i] =
                          DictMerge([intakeId |-> id], benefits[r2])
                /\ \A i \in Matches(authorization_records, id) :
                      authorization_records[i] =
                          DictMerge([intakeId |-> id], auth[r2])
                /\ \A i \in Matches(call_transcripts, id) :
                      call_transcripts[i] = DictMerge([intakeId |-> id], Transcript)

C2_Witness ==
    \E r1, r2 \in Runs :
        /\ OneAfterTheOther(r1, r2)
        /\ auth[r1] # auth[r2]
        /\ Cardinality(Matches(authorization_records, intake_id[r2])) = 1

(***************************************************************************)
(* C3.  Once an audit write of a run has failed, the run has stopped: it   *)
(* executes no later step, appends no later audit event and performs no    *)
(* record-store write.                                                     *)
(***************************************************************************)
C3_AuditFailureStopsRun ==
    [][\A r \in Runs :
          raisedBy[r] = "audit" =>
              /\ pc[r] = "raised" /\ pc'[r] = "raised"
              /\ EventsOf(r)' = EventsOf(r)
              /\ writes'[r] = writes[r]
              /\ raw'[r] = raw[r] /\ extracted'[r] = extracted[r]
              /\ benefits'[r] = benefits[r] /\ auth'[r] = auth[r]]_vars

C3_Witness ==
    \E r \in Runs : raisedBy[r] = "audit" /\ Has(r, "eligibilityChecked")

(***************************************************************************)
(* C4.  As claimed: within a run, the eligibilityChecked event is recorded *)
(* before the authorization is computed, and saved is recorded only after  *)
(* all writes of persist_results have completed.                           *)
(***************************************************************************)
C4_AuthAfterEligibilityEvent ==
    \A r \in Runs :
        /\ auth[r] # Unset => Has(r, "eligibilityChecked")
        /\ Has(r, "saved") => writes[r] = PersistWrites

(***************************************************************************)
(* C4, amended.  Within a run each audit event is recorded before the next *)
(* step begins, except that the authorization is computed together with    *)
(* the benefits, before the eligibilityChecked event is recorded; the auth  *)
(* event follows eligibilityChecked, persistence follows the auth event,    *)
(* and saved is recorded only after all writes of persist_results.          *)
(***************************************************************************)
C4_StepOrder ==
    \A r \in Runs :
        /\ raw[r] # Unset => Has(r, "runStarted")
        /\ (auth[r] # Unset \/ benefits[r] # Unset) => Has(r, "ocrExtracted")
        /\ Has(r, "eligibilityChecked") => (auth[r] # Unset /\ benefits[r] # Unset)
        /\ HasAuthEvent(r) => Has(r, "eligibilityChecked")
        /\ writes[r] > 0 => HasAuthEvent(r)
        /\ Has(r, "saved") => writes[r] = PersistWrites

C4_Witness ==
    \E r \in Runs : Has(r, "saved") /\ writes[r] = PersistWrites

(***************************************************************************)
(* C5.  While a run is in its settling delay or inside the extraction      *)
(* call, requests and the runs of other intakes can take their next step.  *)
(* The code violates it inside the extraction call: the call is            *)
(* synchronous and holds the event loop.                                   *)
(***************************************************************************)
C5_OthersProgress ==
    \A r, q \in Runs :
        (pc[r] \in {"sleeping", "extracting"} /\ pc[q] = "scheduled"
              /\ HasRecord(q) /\ intake_id[q] # intake_id[r])
            => ENABLED StepRunStarted(q)

\* What does hold: the settling delay blocks nobody.
C5_SleepBlocksNobody ==
    \A r, q \in Runs :
        (r # q /\ pc[r] = "sleeping" /\ pc[q] = "scheduled")
            => ENABLED StepRunStarted(q)

(***************************************************************************)
(* C6.  As claimed: a run for an id without an intake record appends no    *)
(* audit event, raises nothing, calls neither extraction nor the rule      *)
(* engine and writes no record.                                            *)
(***************************************************************************)
C6_UnknownIntakeNoAudit ==
    \A r \in Runs :
        (Started(r) /\ ~HasRecord(r)) =>
            /\ EventsOf(r) = <<>>
            /\ raisedBy[r] = "none"
            /\ raw[r] = Unset /\ benefits[r] = Unset /\ auth[r] = Unset
            /\ writes[r] = 0

(***************************************************************************)
(* C6, amended.  A run for an id without an intake record first records    *)
(* runStarted and then returns silently: it appends no other audit event,  *)
(* raises nothing unless that one audit write fails, calls neither         *)
(* extraction nor the rule engine and writes no record.                    *)
(***************************************************************************)
C6_UnknownIntakeOnlyRunStarted ==
    \A r \in Runs :
        (Started(r) /\ ~HasRecord(r)) =>
            /\ pc[r] \in {"scheduled", "load", "returned", "raised"}
            /\ ActionsOf(r) = IF pc[r] \in {"load", "returned"}
                              THEN <<"runStarted">> ELSE <<>>
            /\ raisedBy[r] = IF pc[r] = "raised" THEN "audit" ELSE "none"
            /\ raw[r] = Unset /\ extracted[r] = Unset
            /\ benefits[r] = Unset /\ auth[r] = Unset
            /\ writes[r] = 0

C6_Witness ==
    \E r \in Runs : ~HasRecord(r) /\ pc[r] = "returned"

(***************************************************************************)
(* C7.  A run whose extraction returned the all-empty payload stops only   *)
(* for a rejected store write; its auth event is authObtained, the         *)
(* authorization it stores has authRequired = TRUE, and its update of the  *)
(* intake sets status saved, cptCodes ["97161","97110"], icd10Code         *)
(* "M25.561" and visitsRequested 8.                                        *)
(***************************************************************************)
C7_EmptyPayloadRun ==
    [][\A r \in Runs :
          raw'[r] = _empty_payload =>
              LET id == intake_id[r]
              IN  /\ pc'[r] = "raised" => raisedBy'[r] \in {"audit", "persist"}
                  /\ (pc[r] = "emitAuth" /\ pc'[r] = "persistElig") =>
                        /\ audit_events'[Len(audit_events')].by = r
                        /\ audit_events'[Len(audit_events')].action = "authObtained"
                  /\ (pc[r] = "persistAuth" /\ pc'[r] = "persistTranscript") =>
                        /\ Matches(authorization_records', id) # {}
                        /\ \A i \in Matches(authorization_records', id) :
                              authorization_records'[i].authRequired = TRUE
                  /\ (pc[r] = "persistIntake" /\ pc'[r] = "emitSaved") =>
                        /\ pt_intakes'[id].status = "saved"
                        /\ pt_intakes'[id].cptCodes = ListV(<<"97161", "97110">>)
                        /\ pt_intakes'[id].icd10Code = StrV("M25.561")
                        /\ pt_intakes'[id].visitsRequested = IntV(8)
                  /\ pc'[r] = "done" =>
                        /\ pt_intakes'[id].status = "saved"
                        /\ ActionsOf(r)' =
                              <<"runStarted", "ocrExtracted", "eligibilityChecked",
                                "authObtained", "saved">>]_vars

C7_Witness ==
    \E r \in Runs :
        /\ raw[r] = _empty_payload
        /\ pc[r] = "done"
        /\ pt_intakes[intake_id[r]].visitsRequested = IntV(8)

(***************************************************************************)
(* C8.  For every extraction reply in which the clinical group or one of   *)
(* its fields is missing or falsy, backfilling succeeds (cptCodes and      *)
(* icd10Code non-empty, visitsRequested a non-zero integer) and the run    *)
(* never stops because of absent data.  The code violates it: a clinical   *)
(* group that is present and null makes apply_defaults raise.              *)
(***************************************************************************)
ClinicalFields == {"cptCodes", "icd10Code", "visitsRequested"}
ClinicalIncomplete(payload) ==
    /\ IsDict(payload)
    /\ LET c == DictGet(payload.dict, "clinical", Null)
       IN  \/ ~Truthy(c)
           \/ /\ IsDict(c)
              /\ \E k \in ClinicalFields : ~Truthy(DictGet(c.dict, k, Null))

Backfilled(e) ==
    /\ IsDict(e)
    /\ IsDict(DictGet(e.dict, "clinical", Null))
    /\ LET c == e.dict.clinical.dict
       IN  /\ \A k \in ClinicalFields : Truthy(DictGet(c, k, Null))
           /\ IsInt(c.visitsRequested)

C8_BackfillNeverStops ==
    \A r \in Runs :
        (raw[r] # Unset /\ ClinicalIncomplete(raw[r])) =>
            /\ Backfilled(extracted[r])
            /\ pc[r] = "raised" => StoreFailed(r)

(***************************************************************************)
(* C9.  When a write of persist_results is rejected, the intake's status   *)
(* becomes failed and the run appends no saved event.  The code never      *)
(* writes status failed: the status keeps its value.                       *)
(***************************************************************************)
C9_PersistFailureMarksFailed ==
    \A r \in Runs :
        raisedBy[r] = "persist" =>
            /\ pt_intakes[intake_id[r]].status = "failed"
            /\ ~Has(r, "saved")

\* What does hold: no saved event after a rejected persistence write.
C9_NoSavedAfterPersistFailure ==
    \A r \in Runs : raisedBy[r] = "persist" => ~Has(r, "saved")

(***************************************************************************)
(* C10.  Every intake's status is one of created, running, saved, failed;  *)
(* an intake no run has persisted to has status created; an intake some    *)
(* run has completed its persistence step for has status saved.            *)
(***************************************************************************)
Persisted(r) == writes[r] = PersistWrites
C10_StatusLifecycle ==
    \A id \in DOMAIN pt_intakes :
        /\ pt_intakes[id].status \in Statuses
        /\ (\A r \in Runs : intake_id[r] = id => ~Persisted(r))
              => pt_intakes[id].status = "created"
        /\ (\E r \in Runs : intake_id[r] = id /\ Persisted(r))
              => pt_intakes[id].status = "saved"

C10_Witness ==
    \E id, other \in DOMAIN pt_intakes :
        /\ pt_intakes[id].status = "saved"
        /\ pt_intakes[other].status = "created"

IsAuthNumber(n) ==
    /\ DOMAIN n = {"prefix", "hex"}
    /\ n.prefix = "PT-"
    /\ Len(n.hex) = 8
    /\ \A i \in 1..8 : \E j \in DOMAIN HexUpper : n.hex[i] = HexUpper[j]

C12_AboveSixApproved ==
    \A i \in DOMAIN authCalls :
        LET v == authCalls[i].visits_requested
            ret == authCalls[i].ret
        IN  /\ v > 6 =>
                /\ ret.authRequired = TRUE
                /\ ret.visitsApproved = Min2(6, Min2(10, v))
                /\ ret.visitsApproved = 6
                /\ IsAuthNumber(ret.authNumber)
            /\ (ret.authNumber # Null) <=> ret.authRequired

\* Calls with 7 visits and with more than 10 visits have returned.
C12_Witness ==
    /\ \E i \in DOMAIN authCalls : authCalls[i].visits_requested = 7
    /\ \E i \in DOMAIN authCalls : authCalls[i].visits_requested > 10

(***************************************************************************)
(* C13.  For every authorization calculate_auth computes, validTo is       *)
(* exactly 60 days after validFrom, also when the date changes between     *)
(* the two clock reads of the function.  The code takes validFrom from     *)
(* its first read and validTo from its second: when the date changes       *)
(* between them the difference is 61 days.                                 *)
(***************************************************************************)
C13_ValidSixtyDays ==
    \A i \in DOMAIN authCalls :
        authCalls[i].ret.validTo - authCalls[i].ret.validFrom = 60

\* What does hold: 60 days when both reads fall on one date.
C13_SixtyDaysOnOneDate ==
    \A i \in DOMAIN authCalls :
        authCalls[i].date1 = authCalls[i].date2 =>
            authCalls[i].ret.validTo - authCalls[i].ret.validFrom = 60

(***************************************************************************)
(* C14.  No two calls of calculate_auth with authRequired = true return    *)
(* the same authNumber.  The number keeps 8 of the 32 hexadecimal          *)
(* characters of a uuid4: two calls that draw different uuids agreeing on  *)
(* those 8 characters return the same number.                              *)
(***************************************************************************)
C14_AuthNumberUnique ==
    \A i, j \in DOMAIN authCalls :
        (i # j /\ authCalls[i].ret.authRequired /\ authCalls[j].ret.authRequired)
            => authCalls[i].ret.authNumber # authCalls[j].ret.authNumber

(***************************************************************************)
(* C15.  In every run that reaches step 6 the auth audit action is         *)
(* authObtained if and only if the authorization computed from the         *)
(* backfilled visitsRequested has authRequired = true, that is when        *)
(* visitsRequested > 6, and authWaived otherwise; the after-snapshot of    *)
(* the event is the authorization the run later persists for the intake.   *)
(***************************************************************************)
AuthEventOf(r) ==
    LET evs == EventsOf(r)
    IN  evs[CHOOSE i \in 1..Len(evs) :
                evs[i].action \in {"authObtained", "authWaived"}]

\* The auth event of invocation r agrees with its authorization.
AuthEventAgrees(r) ==
    LET e == AuthEventOf(r)
        v == VisitsRequestedOf(extracted[r]).val
    IN  /\ (e.action = "authObtained") <=> (v > 6)
        /\ (e.action = "authWaived") <=> (v <= 6)
        /\ e.afterJson.authRequired = (v > 6)
        /\ e.afterJson = auth[r]

\* The step is the authorization write of invocation r (the second write of
\* persist_results), and the store applied it.
PersistsAuth(r) == writes[r] = 1 /\ writes'[r] = 2

\* The step is the auth audit write of invocation r, and the store applied it.
EmitsAuth(r) == pc[r] = "emitAuth" /\ pc'[r] = "persistElig"

C15_AuthEventMatchesAuthorization ==
    [][\A r \in Runs :
          /\ EmitsAuth(r) => (HasAuthEvent(r) /\ AuthEventAgrees(r))'
          /\ PersistsAuth(r) =>
                /\ Matches(authorization_records', intake_id[r]) # {}
                /\ \A i \in Matches(authorization_records', intake_id[r]) :
                      authorization_records'[i] =
                          DictMerge([intakeId |-> intake_id[r]],
                                    AuthEventOf(r).afterJson)]_vars

\* A run that emitted authWaived has persisted its authorization.
C15_Witness ==
    \E r \in Runs : Has(r, "authWaived") /\ writes[r] >= 2

(***************************************************************************)
(* The IVR claims speak of one dtmf call: the step in which session sid    *)
(* accepted digit d.                                                       *)
(***************************************************************************)
Pressed(sid, d) ==
    /\ sid \in DOMAIN sessions
    /\ sessions'[sid].dtmf = Append(sessions[sid].dtmf, d)
OtherDigits == Digits \ {"#"}

(***************************************************************************)
(* C16.  For an existing session in any state, a dtmf call with digit 0    *)
(* leaves the session in state ended with prompt "Goodbye", whatever the   *)
(* rule of the state did for that digit.                                   *)
(***************************************************************************)
C16_ZeroEndsSession ==
    [][\A sid \in SessionIds :
          Pressed(sid, "0") =>
              /\ sessions'[sid].state = "ended"
              /\ sessions'[sid].prompt = "Goodbye"
              /\ reply' = [sessionId |-> sid, state |-> "ended",
                           prompt |-> "Goodbye"]]_vars

\* Digit 0 was pressed in checkAuthRequirement, whose own rule only sets
\* the "evaluated" prompt, and the session is ended.
C16_Witness ==
    \E sid \in DOMAIN sessions :
        /\ sessions[sid].dtmf = <<"2", "#", "#", "0">>
        /\ sessions[sid].state = "ended"

(***************************************************************************)
(* C17.  From a fresh session the digits 2, 1,2,3,#, 1,9,9,0,0,1,0,1,#     *)
(* drive the session through collectMemberIdAuth with member-id buffer     *)
(* "123", then collectDobAuth with DOB buffer "19900101", and end in       *)
(* checkAuthRequirement.  In the code the first 0 of the DOB ends the      *)
(* session.                                                                *)
(***************************************************************************)
C17_PriorAuthScript ==
    \A sid \in DOMAIN sessions :
        LET s == sessions[sid]
        IN  /\ s.dtmf = SubSeq(PriorAuthScript, 1, 4) =>
                  s.state = "collectMemberIdAuth" /\ s.memberId = StrV("123")
            /\ s.dtmf = SubSeq(PriorAuthScript, 1, 13) =>
                  s.state = "collectDobAuth" /\ s.dob = StrV("19900101")
            /\ s.dtmf = PriorAuthScript =>
                  /\ s.state = "checkAuthRequirement"
                  /\ s.memberId = StrV("123")
                  /\ s.dob = StrV("19900101")

\* What does hold: a script of the same shape without the digit 0 ends in
\* checkAuthRequirement with both buffers filled.
C17_ZeroFreeScript ==
    \A sid \in DOMAIN sessions :
        LET s == sessions[sid]
        IN  s.dtmf = ZeroFreeScript =>
                /\ s.state = "checkAuthRequirement"
                /\ s.memberId = StrV("123")
                /\ s.dob = StrV("19991111")

(***************************************************************************)
(* C18.  In collectMemberIdElig or collectMemberIdAuth, digit # moves the  *)
(* session to collectDobElig, respectively collectDobAuth, and leaves the  *)
(* member-id buffer as it is; every other digit is appended to the         *)
(* member-id buffer and leaves the state unchanged.  In the code digit 0   *)
(* is appended and then ends the session.                                  *)
(***************************************************************************)
C18_MemberIdEntry ==
    [][\A sid \in SessionIds :
          (sid \in DOMAIN sessions
           /\ sessions[sid].state \in {"collectMemberIdElig", "collectMemberIdAuth"})
          => /\ Pressed(sid, "#") =>
                  /\ sessions'[sid].state =
                        IF sessions[sid].state = "collectMemberIdElig"
                        THEN "collectDobElig" ELSE "collectDobAuth"
                  /\ sessions'[sid].memberId = sessions[sid].memberId
             /\ \A d \in OtherDigits :
                  Pressed(sid, d) =>
                      /\ sessions'[sid].memberId =
                            StrV(OrEmpty(sessions[sid].memberId) \o d)
                      /\ sessions'[sid].state = sessions[sid].state]_vars

\* What does hold: the same for every digit but 0.
C18_MemberIdEntryButZero ==
    [][\A sid \in SessionIds :
          (sid \in DOMAIN sessions
           /\ sessions[sid].state \in {"collectMemberIdElig", "collectMemberIdAuth"})
          => /\ Pressed(sid, "#") =>
                  /\ sessions'[sid].state =
                        IF sessions[sid].state = "collectMemberIdElig"
                        THEN "collectDobElig" ELSE "collectDobAuth"
                  /\ sessions'[sid].memberId = sessions[sid].memberId
             /\ \A d \in OtherDigits \ {"0"} :
                  Pressed(sid, d) =>
                      /\ sessions'[sid].memberId =
                            StrV(OrEmpty(sessions[sid].memberId) \o d)
                      /\ sessions'[sid].state = sessions[sid].state]_vars

(***************************************************************************)
(* C19.  In collectDobElig or collectDobAuth, digit # computes the         *)
(* benefits summary, stores it on the session and moves collectDobElig to  *)
(* benefitsSummary and collectDobAuth to checkAuthRequirement; every       *)
(* other digit is appended to the DOB buffer and leaves the state          *)
(* unchanged; after the # the result query returns the fixed benefits      *)
(* summary (ptVisitLimit 12, ptVisitsUsed 2).  In the code digit 0 is      *)
(* appended and then ends the session.                                     *)
(***************************************************************************)
InDobEntry(sid) ==
    /\ sid \in DOMAIN sessions
    /\ sessions[sid].state \in {"collectDobElig", "collectDobAuth"}

\* The step is a result query for sid, asked after the # of the DOB.
ResultAfterDob(sid) ==
    /\ sid \in DOMAIN sessions
    /\ sessions[sid].state \in {"benefitsSummary", "checkAuthRequirement"}
    /\ DOMAIN reply' = {"sessionId", "benefits", "authResult"}
    /\ reply'.sessionId = sid

HashEndsDobEntry(sid) ==
    /\ (InDobEntry(sid) /\ Pressed(sid, "#")) =>
          /\ sessions'[sid].benefits = _benefits_summary
          /\ sessions'[sid].state =
                IF sessions[sid].state = "collectDobElig"
                THEN "benefitsSummary" ELSE "checkAuthRequirement"
    /\ ResultAfterDob(sid) =>
          /\ reply'.benefits.ptVisitLimit = 12
          /\ reply'.benefits.ptVisitsUsed = 2

AppendsToDob(sid, d) ==
    (InDobEntry(sid) /\ Pressed(sid, d)) =>
        /\ sessions'[sid].dob = StrV(OrEmpty(sessions[sid].dob) \o d)
        /\ sessions'[sid].state = sessions[sid].state

C19_DobEntry ==
    [][\A sid \in SessionIds :
          /\ HashEndsDobEntry(sid)
          /\ \A d \in OtherDigits : AppendsToDob(sid, d)]_vars

\* What does hold: the same for every digit but 0.
C19_DobEntryButZero ==
    [][\A sid \in SessionIds :
          /\ HashEndsDobEntry(sid)
          /\ \A d \in OtherDigits \ {"0"} : AppendsToDob(sid, d)]_vars

(***************************************************************************)
(* C20.  In mainMenu digit 1 moves to collectMemberIdElig, digit 2 to      *)
(* collectMemberIdAuth, digit 0 to ended, and any other digit leaves the   *)
(* state at mainMenu and re-prompts with the menu text start returned.     *)
(* The code re-prompts with another text, which begins with "Invalid.".    *)
(***************************************************************************)
InMainMenu(sid) ==
    /\ sid \in DOMAIN sessions
    /\ sessions[sid].state = "mainMenu"

MainMenuBranches(sid) ==
    /\ Pressed(sid, "1") => sessions'[sid].state = "collectMemberIdElig"
    /\ Pressed(sid, "2") => sessions'[sid].state = "collectMemberIdAuth"
    /\ Pressed(sid, "0") => sessions'[sid].state = "ended"

\* As stated: the re-prompt is the menu text of start.
C20_MainMenuSameText ==
    [][\A sid \in SessionIds :
          InMainMenu(sid) =>
              /\ MainMenuBranches(sid)
              /\ \A d \in Digits \ {"0", "1", "2"} :
                    Pressed(sid, d) =>
                        /\ sessions'[sid].state = "mainMenu"
                        /\ sessions'[sid].prompt = NewSession.prompt
                        /\ reply'.prompt = NewSession.prompt]_vars

\* As the code does it: the re-prompt is the "Invalid" text.
C20_MainMenu ==
    [][\A sid \in SessionIds :
          InMainMenu(sid) =>
              /\ MainMenuBranches(sid)
              /\ \A d \in Digits \ {"0", "1", "2"} :
                    Pressed(sid, d) =>
                        /\ sessions'[sid].state = "mainMenu"
                        /\ sessions'[sid].prompt =
                              "Invalid. Press 1 for Eligibility, 2 for Prior auth, 0 to end"
                        /\ sessions'[sid].prompt # NewSession.prompt
                        /\ reply' = [sessionId |-> sid, state |-> "mainMenu",
                                     prompt |-> sessions'[sid].prompt]]_vars

\* One session was re-prompted in mainMenu and then took the
\* prior-authorization branch; another took the eligibility branch.
C20_Witness ==
    \E s1, s2 \in DOMAIN sessions :
        /\ sessions[s1].dtmf = <<"5", "2">>
        /\ sessions[s1].state = "collectMemberIdAuth"
        /\ sessions[s2].dtmf = <<"1">>
        /\ sessions[s2].state = "collectMemberIdElig"

(***************************************************************************)
(* C21.  From checkAuthRequirement or benefitsSummary every digit other    *)
(* than 0 leaves the state unchanged: in benefitsSummary digit 9           *)
(* re-prompts, in checkAuthRequirement every digit re-prompts with the     *)
(* "evaluated" text; the only transition out of either state is on digit   *)
(* 0, to ended.                                                            *)
(***************************************************************************)
InSummaryStates(sid) ==
    /\ sid \in DOMAIN sessions
    /\ sessions[sid].state \in {"checkAuthRequirement", "benefitsSummary"}

C21_SummaryStatesStay ==
    [][\A sid \in SessionIds :
          InSummaryStates(sid) =>
              /\ \A d \in Digits \ {"0"} :
                    Pressed(sid, d) =>
                        /\ sessions'[sid].state = sessions[sid].state
                        /\ sessions[sid].state = "checkAuthRequirement" =>
                              sessions'[sid].prompt =
                                  "Auth requirement evaluated. Press 9 to repeat, 0 to end"
                        /\ (sessions[sid].state = "benefitsSummary" /\ d = "9") =>
                              sessions'[sid].prompt =
                                  "Benefits repeated. Press 9 to repeat, 0 to end"
              /\ sessions'[sid].state # sessions[sid].state =>
                    /\ Pressed(sid, "0")
                    /\ sessions'[sid].state = "ended"]_vars

\* Digit 9 was pressed in benefitsSummary, and the session is still there.
C21_Witness ==
    \E sid \in DOMAIN sessions :
        /\ sessions[sid].dtmf = <<"1", "#", "#", "9">>
        /\ sessions[sid].state = "benefitsSummary"

(***************************************************************************)
(* C22.  A dtmf or result call with a session id that start never          *)
(* returned yields the error result "session not found" as a value,        *)
(* creates no session and leaves every existing session unchanged.         *)
(***************************************************************************)
C22_UnknownSession ==
    [][/\ \A sid \in SessionIds \ DOMAIN sessions :
              ((\E d \in Digits : dtmf(sid, d)) \/ result(sid)) =>
                  /\ reply' = [error |-> "session not found"]
                  /\ sessions' = sessions
       \* a session appears only in the step in which start returns its id
       /\ \A sid \in DOMAIN sessions' \ DOMAIN sessions :
              /\ reply' = [sessionId |-> sid, state |-> "mainMenu",
                           prompt |-> MenuPrompt]
              /\ sessions'[sid] = NewSession
       /\ reply' = [error |-> "session not found"] => sessions' = sessions]_vars

\* A call named an unknown id while a session existed.
C22_Witness ==
    /\ reply = [error |-> "session not found"]
    /\ DOMAIN sessions # {}
    /\ \E sid \in DOMAIN sessions : sessions[sid].dtmf # <<>>

(***************************************************************************)
(* C23.  The audit trail is append-only: whatever the operations, a        *)
(* recorded audit event is never modified or removed, so the sequence of   *)
(* events of each entity only grows by appending.                          *)
(***************************************************************************)
IsPrefix(a, b) == Len(a) <= Len(b) /\ SubSeq(b, 1, Len(a)) = a
EntityEvents(events, id) ==
    LET OfEntity(ev) == ev.entityId = id
    IN  SelectSeq(events, OfEntity)

C23_AuditAppendOnly ==
    [][/\ IsPrefix(audit_events, audit_events')
       /\ \A id \in IntakeIds \cup {UnknownId} :
             IsPrefix(EntityEvents(audit_events, id),
                      EntityEvents(audit_events', id))]_vars

\* Two invocations have both recorded events, and one of them has persisted.
C23_Witness ==
    \E r1, r2 \in Runs :
        /\ r1 # r2
        /\ Len(EventsOf(r1)) >= 2
        /\ Len(EventsOf(r2)) >= 2
        /\ writes[r1] = PersistWrites

(***************************************************************************)
(* C24.  The audit query for an entity returns its events in ascending     *)
(* timestamp order, and for the events of one run that order is the order  *)
(* in which the run emitted them, also when consecutive emissions receive  *)
(* equal timestamps from the clock.                                        *)
(***************************************************************************)
IsAuditResponse == "events" \in DOMAIN response

\* The part the sort of routes/audit.py:11 does give: ascending timestamps.
AuditQueryAscending ==
    IsAuditResponse =>
        \A i, j \in DOMAIN response.events :
            i < j => response.events[i].timestamp <= response.events[j].timestamp

\* Position of an event in the collection, which is its emission order.
EmittedAt(ev) == CHOOSE k \in DOMAIN audit_events : audit_events[k] = ev

C24_EmissionOrder ==
    IsAuditResponse =>
        \A i, j \in DOMAIN response.events :
            (i < j /\ response.events[i].by = response.events[j].by)
                => EmittedAt(response.events[i]) < EmittedAt(response.events[j])

(***************************************************************************)
(* C25.  Get-intake for an id with no intake record returns NotFound;      *)
(* get-audit for an (entityType, entityId) with no events returns an empty *)
(* sequence and never an error, also for ids that never existed.           *)
(***************************************************************************)
NoEventsOf(entity, id) ==
    \A k \in DOMAIN audit_events :
        ~(audit_events[k].entityType = entity /\ audit_events[k].entityId = id)

C25_UnknownReads ==
    [][/\ \A id \in IntakeIds \cup {UnknownId} :
             (id \notin DOMAIN pt_intakes /\ get_intake(id))
                 => response' = HttpNotFound
       /\ \A entity \in EntityTypes, id \in IntakeIds \cup {UnknownId} :
             (NoEventsOf(entity, id) /\ get_audit(entity, id))
                 => response' = [events |-> <<>>]]_vars

\* An audit query has answered with the empty sequence while the trail holds
\* events of another entity.
C25_Witness ==
    /\ response = [events |-> <<>>]
    /\ audit_events # <<>>
    /\ pt_intakes # <<>>

(***************************************************************************)
(* C26.  Trigger-run with an unknown intake id responds not found,         *)
(* schedules no run and appends no audit event; with a known id it returns *)
(* its acknowledgement before any step of the run has executed (the run is *)
(* only scheduled) and changes neither the intake record nor the audit     *)
(* trail.                                                                  *)
(***************************************************************************)
OnlyScheduled(r, id) ==
    /\ pc[r] = "unused"
    /\ pc' = [pc EXCEPT ![r] = "scheduled"]
    /\ intake_id'[r] = id
    /\ writes'[r] = 0
    /\ \A k \in DOMAIN audit_events' : audit_events'[k].by # r

C26_TriggerRun ==
    [][\A id \in IntakeIds \cup {UnknownId} :
          run_intake(id) =>
              /\ audit_events' = audit_events
              /\ collections' = collections
              /\ IF id \in DOMAIN pt_intakes
                 THEN /\ response' = [runId |-> id]
                      /\ \E r \in Runs : OnlyScheduled(r, id)
                 ELSE /\ response' = HttpNotFound
                      /\ pc' = pc]_vars

\* The acknowledgement has been returned and the run it scheduled has not
\* taken a step.
C26_Witness ==
    \E r \in Runs :
        /\ pc[r] = "scheduled"
        /\ intake_id[r] \in DOMAIN pt_intakes
        /\ response = [runId |-> intake_id[r]]
        /\ EventsOf(r) = <<>>

(***************************************************************************)
(* C27.  A single complete run of the pipeline on an existing intake       *)
(* appends exactly six audit events for that intake.  The code appends     *)
(* five: runStarted, ocrExtracted, eligibilityChecked, authObtained or     *)
(* authWaived, saved.                                                      *)
(***************************************************************************)
EventsOfCompleteRuns(n) ==
    \A r \in Runs :
        (pc[r] = "done" /\ intake_id[r] \in DOMAIN pt_intakes)
            => /\ Len(EventsOf(r)) = n
               /\ \A k \in DOMAIN EventsOf(r) :
                     EventsOf(r)[k].entityId = intake_id[r]

\* As stated: six events.
C27_SixEvents == EventsOfCompleteRuns(6)

\* As the code does it: five events.
C27_FiveEvents == EventsOfCompleteRuns(5)

\* A run on an existing intake has completed.
C27_Witness ==
    \E r \in Runs :
        /\ pc[r] = "done"
        /\ intake_id[r] \in DOMAIN pt_intakes
        /\ pt_intakes[intake_id[r]].status = "saved"
        /\ Len(EventsOf(r)) > 0

(***************************************************************************)
(* C28.  IVR sessions and intake data are never shared: no step of a       *)
(* pipeline run creates or changes an IVR session, and no IVR operation    *)
(* (start, dtmf, result) changes an intake, eligibility, authorization,    *)
(* transcript or audit record.                                             *)
(***************************************************************************)
IvrOperation ==
    \/ start(BothSession)
    \/ \E digit \in BothDigits : dtmf(BothSession, digit)
    \/ result(BothSession)

RunStep ==
    \E r \in Runs :
        \/ PipelineStep(r)
        \/ StepExtracted(r, ValidPayload)
        \/ StepRules(r, CoreUuid, 0, 0)

C28_NeverShared ==
    [][/\ RunStep => (sessions' = sessions /\ reply' = reply)
       /\ IvrOperation => (collections' = collections
                           /\ audit_events' = audit_events)
       /\ (sessions' # sessions)
             => (collections' = collections /\ audit_events' = audit_events
                 /\ pc' = pc /\ locals' = locals)]_vars

\* A caller has keyed digits and asked for the result while a run has gone
\* past its rules step and recorded events.
C28_Witness ==
    /\ BothSession \in DOMAIN sessions
    /\ Len(sessions[BothSession].dtmf) >= 2
    /\ "authResult" \in DOMAIN reply
    /\ \E r \in Runs : Has(r, "eligibilityChecked")

(***************************************************************************)
(* C29.  ended is terminal: once a session's state is ended, no later dtmf *)
(* call with any digit changes its state, its prompt ("Goodbye"), its      *)
(* member-id buffer, its DOB buffer or its stored benefits.                *)
(***************************************************************************)
C29_EndedIsTerminal ==
    [][\A sid \in DOMAIN sessions :
          sessions[sid].state = "ended" =>
              /\ sid \in DOMAIN sessions'
              /\ sessions[sid].prompt = "Goodbye"
              /\ sessions'[sid].state = "ended"
              /\ sessions'[sid].prompt = sessions[sid].prompt
              /\ sessions'[sid].memberId = sessions[sid].memberId
              /\ sessions'[sid].dob = sessions[sid].dob
              /\ sessions'[sid].benefits = sessions[sid].benefits]_vars

\* A session that has benefits was ended and has received digits since.
C29_Witness ==
    \E sid \in DOMAIN sessions :
        /\ sessions[sid].state = "ended"
        /\ sessions[sid].benefits # Null
        /\ \E i \in 1..(Len(sessions[sid].dtmf) - 1) : sessions[sid].dtmf[i] = "0"

C31_DtmfAppended ==
    [][/\ \A sid \in SessionIds, digit \in Digits :
             dtmf(sid, digit) =>
                 IF sid \in DOMAIN sessions
                 THEN /\ sessions'[sid].dtmf = Append(sessions[sid].dtmf, digit)
                      /\ \A other \in DOMAIN sessions \ {sid} :
                            sessions'[other].dtmf = sessions[other].dtmf
                 ELSE sessions' = sessions
       /\ \A sid \in DOMAIN sessions :
             \/ sessions'[sid].dtmf = sessions[sid].dtmf
             \/ \E digit \in Digits :
                   sessions'[sid].dtmf = Append(sessions[sid].dtmf, digit)]_vars

\* An ended session has recorded a digit received after it ended, and a
\* digit that caused no transition.
C31_Witness ==
    \E sid \in DOMAIN sessions :
        /\ sessions[sid].state = "ended"
        /\ sessions[sid].dtmf = <<"5", "0", "9">>

(***************************************************************************)
(* C32.  The eligibility and authorization branches never cross: a session *)
(* whose first menu choice was 1 never enters collectMemberIdAuth,         *)
(* collectDobAuth or checkAuthRequirement, one whose first menu choice was *)
(* 2 never enters collectMemberIdElig, collectDobElig or benefitsSummary,  *)
(* and no session returns to mainMenu or to an earlier collection state    *)
(* once it has left it.                                                    *)
(***************************************************************************)
EligStates == {"collectMemberIdElig", "collectDobElig", "benefitsSummary"}
AuthStates == {"collectMemberIdAuth", "collectDobAuth", "checkAuthRequirement"}

\* The first digit of the session that the main menu acts on, "" if none.
FirstChoice(s) ==
    LET Chosen == {i \in DOMAIN s.dtmf : s.dtmf[i] \in {"0", "1", "2"}}
    IN  IF Chosen = {} THEN ""
        ELSE s.dtmf[CHOOSE i \in Chosen : \A j \in Chosen : i <= j]

\* How far along the flow a state is.
Stage(state) ==
    CASE state = "mainMenu" -> 0
      [] state \in {"collectMemberIdElig", "collectMemberIdAuth"} -> 1
      [] state \in {"collectDobElig", "collectDobAuth"} -> 2
      [] state \in {"benefitsSummary", "checkAuthRequirement"} -> 3
      [] state = "ended" -> 4

C32_BranchesNeverCross ==
    [][/\ \A sid \in DOMAIN sessions' :
             /\ FirstChoice(sessions'[sid]) = "1"
                   => sessions'[sid].state \notin AuthStates
             /\ FirstChoice(sessions'[sid]) = "2"
                   => sessions'[sid].state \notin EligStates
       /\ \A sid \in DOMAIN sessions :
             Stage(sessions'[sid].state) >= Stage(sessions[sid].state)]_vars

\* One session is at the end of the eligibility branch and another in the
\* authorization branch.
C32_Witness ==
    \E s1, s2 \in DOMAIN sessions :
        /\ sessions[s1].state = "benefitsSummary"
        /\ sessions[s1].dtmf = <<"9", "1", "#", "#">>
        /\ sessions[s2].state = "collectMemberIdAuth"

(***************************************************************************)
(* C33.  The intake status is written last in persist_results, so in every *)
(* reachable state (also after a persistence write has failed part-way) an *)
(* intake with status saved has an eligibility record, an authorization    *)
(* record and a transcript record keyed by its id.                         *)
(***************************************************************************)
C33_SavedHasRecords ==
    \A id \in DOMAIN pt_intakes :
        pt_intakes[id].status = "saved" =>
            /\ Matches(eligibility_results, id) # {}
            /\ Matches(authorization_records, id) # {}
            /\ Matches(call_transcripts, id) # {}

\* An intake is saved, and a run has had a persistence write rejected after
\* its first write was applied.
C33_Witness ==
    /\ \E id \in DOMAIN pt_intakes : pt_intakes[id].status = "saved"
    /\ \E r \in Runs :
          /\ raisedBy[r] = "persist"
          /\ writes[r] >= 1
          /\ writes[r] < PersistWrites

(***************************************************************************)
(* C34.  Whenever the audit trail of an intake contains a saved event,     *)
(* that intake's status is saved; and for every intake the number of saved *)
(* events never exceeds the number of runs whose persistence step          *)
(* completed.                                                              *)
(***************************************************************************)
CountOf(id, actions) ==
    Cardinality({k \in DOMAIN audit_events :
                    /\ audit_events[k].entityId = id
                    /\ audit_events[k].action \in actions})
PersistedRuns(id) == {r \in Runs : intake_id[r] = id /\ Persisted(r)}

C34_SavedEventMeansSaved ==
    \A id \in IntakeIds \cup {UnknownId} :
        /\ CountOf(id, {"saved"}) > 0
              => (id \in DOMAIN pt_intakes /\ pt_intakes[id].status = "saved")
        /\ CountOf(id, {"saved"}) <= Cardinality(PersistedRuns(id))

\* Two runs of one intake have both emitted saved.
C34_Witness ==
    \E id \in DOMAIN pt_intakes :
        /\ CountOf(id, {"saved"}) = 2
        /\ pt_intakes[id].status = "saved"

(***************************************************************************)
(* C35.  When two runs for the same intake id overlap in time and their    *)
(* extraction results differ, after both have finished the stored records  *)
(* are mutually consistent: the stored authorization's authRequired equals *)
(* (the intake's denormalized visitsRequested > 6).  The four writes of    *)
(* persist_results are separate awaits: the writes of two runs interleave. *)
(***************************************************************************)
BothFinished(r1, r2) ==
    /\ r1 # r2
    /\ pc[r1] = "done" /\ pc[r2] = "done"
    /\ intake_id[r1] = intake_id[r2]
    /\ extracted[r1] # extracted[r2]

AuthAgreesWithIntake(id) ==
    find_one(authorization_records, id).authRequired
        = (pt_intakes[id].visitsRequested.int > AuthThreshold)

C35_OverlapConsistent ==
    \A r1, r2 \in Runs : BothFinished(r1, r2) => AuthAgreesWithIntake(intake_id[r1])

\* What does hold: consistency when the second run started after the first
\* had returned.
C35_SequentialConsistent ==
    \A r1, r2 \in Runs :
        (BothFinished(r1, r2) /\ OneAfterTheOther(r1, r2))
            => AuthAgreesWithIntake(intake_id[r1])

(***************************************************************************)
(* C36.  For each intake and in every reachable state, also when several   *)
(* runs of that intake interleave or a run is aborted, the audit event     *)
(* counts satisfy #saved <= #(authObtained + authWaived) <=                *)
(* #eligibilityChecked <= #ocrExtracted <= #runStarted, and the events of  *)
(* each individual run appear in the intake's log as an in-order           *)
(* subsequence.                                                            *)
(***************************************************************************)
C36_CountsAndOrder ==
    /\ \A id \in IntakeIds \cup {UnknownId} :
          /\ CountOf(id, {"saved"}) <= CountOf(id, {"authObtained", "authWaived"})
          /\ CountOf(id, {"authObtained", "authWaived"})
                <= CountOf(id, {"eligibilityChecked"})
          /\ CountOf(id, {"eligibilityChecked"}) <= CountOf(id, {"ocrExtracted"})
          /\ CountOf(id, {"ocrExtracted"}) <= CountOf(id, {"runStarted"})
    /\ \A r \in Runs :
          /\ \E complete \in CompleteSequences : IsPrefix(ActionsOf(r), complete)
          /\ \A k \in DOMAIN EventsOf(r) : EventsOf(r)[k].entityId = intake_id[r]

\* The events of two runs of one intake interleave in the log, and one of
\* the runs was aborted.
C36_Witness ==
    \E r1, r2 \in Runs :
        /\ r1 # r2
        /\ intake_id[r1] = intake_id[r2]
        /\ pc[r1] = "raised"
        /\ pc[r2] = "done"
        /\ \E i, j, k \in DOMAIN audit_events :
              /\ i < j /\ j < k
              /\ audit_events[i].by = r1
              /\ audit_events[j].by = r2
              /\ audit_events[k].by = r1

(***************************************************************************)
(* C37.  An intake's status never regresses: once it is saved it stays     *)
(* saved under every later operation, also while a further run of the same *)
(* intake is in progress and after a later run aborts or fails; the only   *)
(* status change the code performs is to saved.                            *)
(***************************************************************************)
C37_StatusNeverRegresses ==
    [][\A id \in DOMAIN pt_intakes :
          /\ id \in DOMAIN pt_intakes'
          /\ pt_intakes[id].status = "saved" => pt_intakes'[id].status = "saved"
          /\ pt_intakes'[id].status # pt_intakes[id].status
                => pt_intakes'[id].status = "saved"]_vars

\* An intake is saved, and a later run of it has had a persistence write
\* rejected.
C37_Witness ==
    \E r1, r2 \in Runs :
        /\ r1 # r2
        /\ intake_id[r1] = intake_id[r2]
        /\ intake_id[r1] \in DOMAIN pt_intakes
        /\ pt_intakes[intake_id[r1]].status = "saved"
        /\ pc[r1] = "done"
        /\ raisedBy[r2] = "persist"

(***************************************************************************)
(* C38.  IVR sessions are isolated: start creates a session with a fresh   *)
(* id in state mainMenu with empty DTMF sequence, empty buffers and no     *)
(* benefits without changing any existing session; a dtmf call on one      *)
(* session leaves every other session unchanged; and result changes no     *)
(* session at all.                                                         *)
(***************************************************************************)
OthersUnchanged(sid) ==
    \A other \in DOMAIN sessions \ {sid} :
        other \in DOMAIN sessions' /\ sessions'[other] = sessions[other]

C38_SessionsIsolated ==
    [][\A sid \in SessionIds :
          /\ start(sid) =>
                /\ sid \notin DOMAIN sessions
                /\ DOMAIN sessions' = DOMAIN sessions \cup {sid}
                /\ sessions'[sid].state = "mainMenu"
                /\ sessions'[sid].dtmf = <<>>
                /\ sessions'[sid].memberId = Null
                /\ sessions'[sid].dob = Null
                /\ sessions'[sid].benefits = Null
                /\ OthersUnchanged(sid)
          /\ (\E digit \in Digits : dtmf(sid, digit)) =>
                /\ DOMAIN sessions' = DOMAIN sessions
                /\ OthersUnchanged(sid)
          /\ result(sid) => sessions' = sessions]_vars

\* A session has just been started next to one that holds benefits.
C38_Witness ==
    \E s1, s2 \in DOMAIN sessions :
        /\ s1 # s2
        /\ sessions[s1].benefits # Null
        /\ sessions[s2] = NewSession
        /\ reply = [sessionId |-> s2, state |-> "mainMenu", prompt |-> MenuPrompt]

(***************************************************************************)
(* C39.  The input buffers of a session change only while their own        *)
(* collection state is current: the member-id buffer only by a dtmf call   *)
(* made in collectMemberIdElig or collectMemberIdAuth, the DOB buffer only *)
(* by one made in collectDobElig or collectDobAuth, and the stored         *)
(* benefits only by a # made in a DOB state; in every other state a dtmf   *)
(* call leaves all three unchanged.                                        *)
(***************************************************************************)
MemberIdStates == {"collectMemberIdElig", "collectMemberIdAuth"}
DobStates == {"collectDobElig", "collectDobAuth"}

C39_BuffersOwnState ==
    [][\A sid \in DOMAIN sessions :
          LET s == sessions[sid]
              t == sessions'[sid]
          IN  /\ t.memberId # s.memberId
                    => (s.state \in MemberIdStates /\ Len(t.dtmf) = Len(s.dtmf) + 1)
              /\ t.dob # s.dob
                    => (s.state \in DobStates /\ Len(t.dtmf) = Len(s.dtmf) + 1)
              /\ t.benefits # s.benefits
                    => /\ s.state \in DobStates
                       /\ t.dtmf = Append(s.dtmf, "#")]_vars

\* A session has filled its member-id buffer, its DOB buffer and its
\* benefits, and has received a digit since.
C39_Witness ==
    \E sid \in DOMAIN sessions :
        /\ sessions[sid].dtmf = <<"1", "5", "#", "#", "9">>
        /\ sessions[sid].memberId = StrV("5")
        /\ sessions[sid].dob = StrV("")
        /\ sessions[sid].benefits # Null

====
